---------------------------- MODULE Spec2Model ----------------------------
(***************************************************************************)
(* Music-Flow, dags/scripts/spotify_elt.py: the resolve phase of a run.    *)
(*                                                                         *)
(* Spec       the run state (registries, staging lists, ledger) under      *)
(*            prepare_spotify, one video record per step.  The outcome of  *)
(*            a find_* cascade is an input of the step: it is decided by   *)
(*            the answers of the Spotify search API.                       *)
(* SpecScore  the three scoring rules qsearch_track, qsearch_album and     *)
(*            qsearch_playlist as functions of a video record and of the   *)
(*            answer of one search call.                                   *)
(***************************************************************************)
EXTENDS Integers, Sequences, FiniteSets, TLC

VARIABLES
    \* spotify_elt.py:20-33, the module-level run state
    distinct_albums,            \* album_uri    -> registry entry
    distinct_playlists_others,  \* playlist_uri -> registry entry
    distinct_tracks,            \* track_uri    -> registry entry
    albums_to_like,
    playlists_to_like,
    tracks_to_like,
    playlist_items,             \* user playlist id -> list of track URIs
    log_albums,
    log_playlists_others,
    log_tracks,
    \* main(): what is fixed before the resolve loop starts
    liked_tracks_uri,           \* populate_tracks_uri(sp), line 788
    liked_albums_uri,           \* populate_albums_uri(sp), line 789
    THRESHOLD_MS,               \* os.getenv("THRESHOLD_MS"): is it set, and int() of it
    \* df_videos.apply(prepare_spotify, ...), line 806
    pc,                         \* "resolve" | "crashed" (an exception left the loop)
    n_rows,                     \* video records handed to prepare_spotify so far
    \* SpecScore: one scorer call
    video,                      \* the row given to the scorer
    response,                   \* what sp.search (with sp.album / sp.playlist) answered
    result,                     \* what the scorer returned or raised
    \* SpecMain: the calls made on the Spotify client sp
    searches,                   \* sp.search calls of the last prepare_spotify, in order
    sent                        \* like / follow / playlist-append calls of main, in order

registryVars == <<distinct_albums, distinct_playlists_others, distinct_tracks>>
stagingVars  == <<albums_to_like, playlists_to_like, tracks_to_like, playlist_items>>
ledgerVars   == <<log_albums, log_playlists_others, log_tracks>>
envVars      == <<liked_tracks_uri, liked_albums_uri, THRESHOLD_MS>>
runVars      == <<registryVars, stagingVars, ledgerVars, envVars, pc, n_rows>>
scoreVars    == <<video, response, result>>
ioVars       == <<searches, sent>>
vars         == <<runVars, scoreVars, ioVars>>

----------------------------------------------------------------------------
(* Bounds of the model *)

\* video records per run
MaxRecords == 3

\* artists of a candidate track
MaxArtists == 2

\* tracks of a candidate album
MaxAlbumTracks == 5

\* entries of a candidate playlist
MaxPlaylistEntries == 4

----------------------------------------------------------------------------
(* Python values *)

NoneVal == "None"

\* a raised exception, as the value a call "returns" to the model
Raise(e) == [tag |-> "raise", exc |-> e]

NoMatch == [tag |-> "None"]

IsMatch(info) == info.tag = "match"

RECURSIVE SumSeq(_)
SumSeq(s) == IF s = <<>> THEN 0 ELSE Head(s) + SumSeq(Tail(s))

Abs(x) == IF x < 0 THEN -x ELSE x

\* x in list
InList(x, list) == \E i \in 1..Len(list) : list[i] = x

NoDuplicates(list) == \A i, j \in 1..Len(list) : list[i] = list[j] => i = j

\* dict[key] = value
DictSet(d, key, value) == (key :> value) @@ d

\* "; ".join(names)
RECURSIVE Join(_)
Join(names) ==
    IF names = <<>> THEN <<>>
    ELSE IF Len(names) = 1 THEN names[1]
    ELSE names[1] \o <<";", " ">> \o Join(Tail(names))


----------------------------------------------------------------------------
(* The catalogue the run sees through sp.search / sp.album / sp.playlist,  *)
(* and the warehouse tables.  Two albums share a track (t2), a2 lists t2   *)
(* twice, the two playlists share t3 and p2 lists t3 twice.                *)

\* sp.search(type="track") item: track["album"]["uri"], ["name"], ["artists"], ["duration_ms"]
CatalogTrack(t) ==
    CASE t = "t1" -> [album_uri |-> "a1", name |-> "Song1", artists |-> "Artist1", duration_ms |-> 180000]
      [] t = "t2" -> [album_uri |-> "a1", name |-> "Song2", artists |-> "Artist1; Guest", duration_ms |-> 200000]
      [] t = "t3" -> [album_uri |-> "a2", name |-> "Song3", artists |-> "Artist2", duration_ms |-> 240000]

\* sp.album(uri): the album with its track list
CatalogAlbum(a) ==
    CASE a = "a1" -> [name |-> "Album1", artists |-> "Artist1", tracks |-> <<"t1", "t2">>]
      [] a = "a2" -> [name |-> "Album2", artists |-> "Artist2", tracks |-> <<"t2", "t3", "t2">>]

\* sp.playlist(uri): playlist["id"] is the id inside the URI spotify:playlist:<id>
CatalogPlaylist(p) ==
    CASE p = "p1" -> [id |-> "id1", name |-> "Mix1", owner |-> "Owner1", tracks |-> <<"t1", "t3">>]
      [] p = "p2" -> [id |-> "id2", name |-> "Mix2", owner |-> "Owner2", tracks |-> <<"t3", "t3", "t2">>]

\* df_playlists after create_user_playlists_from_df (lines 793-795):
\* (youtube_playlist_id, playlist_name, spotify_playlist_id); y1 has two rows
df_playlists ==
    << [youtube_playlist_id |-> "0",  playlist_name |-> "Liked", spotify_playlist_id |-> "0"],
       [youtube_playlist_id |-> "y1", playlist_name |-> "Rock",  spotify_playlist_id |-> "u1"],
       [youtube_playlist_id |-> "y2", playlist_name |-> "Jazz",  spotify_playlist_id |-> "u2"],
       [youtube_playlist_id |-> "y1", playlist_name |-> "Rock",  spotify_playlist_id |-> "u3"] >>

\* youtube_playlist_id of a video row; y9 has no row in df_playlists
YoutubePlaylistIds == {"0", "y1", "y2", "y9"}

\* the configured THRESHOLD_MS and the durations a video row has around it
ThresholdValue == 600000
RowDurations   == {180000, 600000}

Saved         == "saved"
SkippedDuring == "skipped (saved during the run)"
SkippedBefore == "skipped (saved before the run)"


----------------------------------------------------------------------------
(* What a cascade hands to the collector: the dict returned by qsearch_*   *)
(* for an accepted candidate of the catalogue.                             *)

\* qsearch_track's return value (lines 179-190)
TrackInfo(t, try, stid) ==
    [tag |-> "match",
     track_uri |-> t,
     album_uri |-> CatalogTrack(t).album_uri,
     track_title |-> CatalogTrack(t).name,
     track_artists |-> CatalogTrack(t).artists,
     duration_ms |-> CatalogTrack(t).duration_ms,
     found_on_try |-> try,
     difference_ms |-> 0,
     tracks_in_desc |-> 1,
     q |-> "q",
     search_type_id |-> stid]

\* (track uri, track title, track duration ms) of an album's tracks (line 291)
AlbumTracksInfo(a) ==
    [i \in 1..Len(CatalogAlbum(a).tracks) |->
        [uri |-> CatalogAlbum(a).tracks[i],
         name |-> CatalogTrack(CatalogAlbum(a).tracks[i]).name,
         duration_ms |-> CatalogTrack(CatalogAlbum(a).tracks[i]).duration_ms]]

\* qsearch_album's return value (lines 311-326)
AlbumInfo(a, try, stid) ==
    [tag |-> "match",
     album_uri |-> a,
     tracks_uri |-> CatalogAlbum(a).tracks,
     tracks_info |-> AlbumTracksInfo(a),
     album_title |-> CatalogAlbum(a).name,
     album_artists |-> CatalogAlbum(a).artists,
     duration_ms |-> SumSeq([i \in 1..Len(CatalogAlbum(a).tracks) |-> AlbumTracksInfo(a)[i].duration_ms]),
     total_tracks |-> Len(CatalogAlbum(a).tracks),
     found_on_try |-> try,
     difference_ms |-> 0,
     tracks_in_desc |-> 0,
     q |-> "q",
     search_type_id |-> stid]

\* (uri, name, artists, duration ms, album uri) of a playlist's tracks (lines 446-454)
PlaylistTracksInfo(p) ==
    [i \in 1..Len(CatalogPlaylist(p).tracks) |->
        [uri |-> CatalogPlaylist(p).tracks[i],
         name |-> CatalogTrack(CatalogPlaylist(p).tracks[i]).name,
         artists |-> << CatalogTrack(CatalogPlaylist(p).tracks[i]).artists >>,
         duration_ms |-> CatalogTrack(CatalogPlaylist(p).tracks[i]).duration_ms,
         album_uri |-> CatalogTrack(CatalogPlaylist(p).tracks[i]).album_uri]]

\* qsearch_playlist's return value (lines 474-488)
PlaylistInfo(p, try, stid) ==
    [tag |-> "match",
     playlist_uri |-> p,
     playlist_id |-> CatalogPlaylist(p).id,
     tracks_uri |-> CatalogPlaylist(p).tracks,
     tracks_info |-> PlaylistTracksInfo(p),
     playlist_title |-> CatalogPlaylist(p).name,
     playlist_owner |-> CatalogPlaylist(p).owner,
     duration_ms |-> SumSeq([i \in 1..Len(CatalogPlaylist(p).tracks) |-> PlaylistTracksInfo(p)[i].duration_ms]),
     total_tracks |-> Len(CatalogPlaylist(p).tracks),
     found_on_try |-> try,
     difference_ms |-> 0,
     tracks_in_desc |-> 0,
     q |-> "q",
     search_type_id |-> stid]

----------------------------------------------------------------------------
(* Collector: collect_* decide the status and stage, log_* write the       *)
(* registries and the ledger.                                              *)

\* InLedger looking up the URI alone, not the primary key (uri, playlist_id)
InLedger_UriOnly(log, uri, user_playlist_id) ==
    \E i \in 1..Len(log) : log[i].uri = uri

\* (uri, playlist_id) in ((uri, playlist_id) for _, uri, playlist_id, *_ in log)
InLedger(log, uri, user_playlist_id) ==
    \E i \in 1..Len(log) : log[i].uri = uri /\ log[i].user_playlist_id = user_playlist_id

\* playlist_items[user_playlist_id] of the defaultdict(list)
ItemsOf(items, user_playlist_id) ==
    IF user_playlist_id \in DOMAIN items THEN items[user_playlist_id] ELSE <<>>

\* ExtendIfAbsent filtering against the list as it was before the call
\* (list.extend([uri for uri in uris if uri not in list]))
ExtendIfAbsent_Eager(list, uris) ==
    list \o SelectSeq(uris, LAMBDA u : ~InList(u, list))

\* list.extend(uri for uri in uris if uri not in list): the generator is consumed
\* while the list grows, so each test sees the URIs appended before it
RECURSIVE ExtendIfAbsent(_, _)
ExtendIfAbsent(list, uris) ==
    IF uris = <<>> THEN list
    ELSE IF InList(Head(uris), list)
         THEN ExtendIfAbsent(list, Tail(uris))
         ELSE ExtendIfAbsent(Append(list, Head(uris)), Tail(uris))

\* the ledger tuple with the search_type_id written as found_on_try
LedgerEntry_TryFromSearchType(log_id, uri, user_playlist_id, info, status) ==
    [log_id |-> log_id,
     uri |-> uri,
     user_playlist_id |-> user_playlist_id,
     found_on_try |-> info.search_type_id,
     difference_ms |-> info.difference_ms,
     tracks_in_desc |-> info.tracks_in_desc,
     q |-> info.q,
     search_type_id |-> info.search_type_id,
     status |-> status]

\* one ledger tuple (lines 239-249, 385-395, 541-551)
LedgerEntry(log_id, uri, user_playlist_id, info, status) ==
    [log_id |-> log_id,
     uri |-> uri,
     user_playlist_id |-> user_playlist_id,
     found_on_try |-> info.found_on_try,
     difference_ms |-> info.difference_ms,
     tracks_in_desc |-> info.tracks_in_desc,
     q |-> info.q,
     search_type_id |-> info.search_type_id,
     status |-> status]

\* collect_track without the look-up in log_tracks
collect_track_NoLedgerCheck(track_info, user_playlist_id) ==
    IF track_info.track_uri \in liked_tracks_uri /\ user_playlist_id = "0"
    THEN [status |-> SkippedBefore, playlist_items |-> playlist_items, tracks_to_like |-> tracks_to_like]
    ELSE IF user_playlist_id # "0"
    THEN [status |-> Saved,
          playlist_items |->
              DictSet(playlist_items, user_playlist_id,
                      ExtendIfAbsent(ItemsOf(playlist_items, user_playlist_id), <<track_info.track_uri>>)),
          tracks_to_like |-> tracks_to_like]
    ELSE [status |-> Saved,
          playlist_items |-> playlist_items,
          tracks_to_like |-> Append(tracks_to_like, track_info.track_uri)]

\* collect_track consulting the snapshot for every destination
collect_track_SnapshotAnyDest(track_info, user_playlist_id) ==
    IF InLedger(log_tracks, track_info.track_uri, user_playlist_id)
    THEN [status |-> SkippedDuring, playlist_items |-> playlist_items, tracks_to_like |-> tracks_to_like]
    ELSE IF track_info.track_uri \in liked_tracks_uri
    THEN [status |-> SkippedBefore, playlist_items |-> playlist_items, tracks_to_like |-> tracks_to_like]
    ELSE IF user_playlist_id # "0"
    THEN [status |-> Saved,
          playlist_items |->
              DictSet(playlist_items, user_playlist_id,
                      ExtendIfAbsent(ItemsOf(playlist_items, user_playlist_id), <<track_info.track_uri>>)),
          tracks_to_like |-> tracks_to_like]
    ELSE [status |-> Saved,
          playlist_items |-> playlist_items,
          tracks_to_like |-> Append(tracks_to_like, track_info.track_uri)]

\* collect_track testing the liked snapshot before the ledger
collect_track_SnapshotFirst(track_info, user_playlist_id) ==
    IF track_info.track_uri \in liked_tracks_uri /\ user_playlist_id = "0"
    THEN [status |-> SkippedBefore, playlist_items |-> playlist_items, tracks_to_like |-> tracks_to_like]
    ELSE IF InLedger(log_tracks, track_info.track_uri, user_playlist_id)
    THEN [status |-> SkippedDuring, playlist_items |-> playlist_items, tracks_to_like |-> tracks_to_like]
    ELSE collect_track_NoLedgerCheck(track_info, user_playlist_id)

\* collect_track: the status, and the staging it leaves behind
collect_track(track_info, user_playlist_id) ==
    IF InLedger(log_tracks, track_info.track_uri, user_playlist_id)
    THEN [status |-> SkippedDuring, playlist_items |-> playlist_items, tracks_to_like |-> tracks_to_like]
    ELSE IF track_info.track_uri \in liked_tracks_uri /\ user_playlist_id = "0"
    THEN [status |-> SkippedBefore, playlist_items |-> playlist_items, tracks_to_like |-> tracks_to_like]
    ELSE IF user_playlist_id # "0"
    THEN [status |-> Saved,
          playlist_items |->
              IF ~InList(track_info.track_uri, ItemsOf(playlist_items, user_playlist_id))
              THEN DictSet(playlist_items, user_playlist_id,
                           Append(ItemsOf(playlist_items, user_playlist_id), track_info.track_uri))
              ELSE DictSet(playlist_items, user_playlist_id, ItemsOf(playlist_items, user_playlist_id)),
          tracks_to_like |-> tracks_to_like]
    ELSE [status |-> Saved,
          playlist_items |-> playlist_items,
          tracks_to_like |-> Append(tracks_to_like, track_info.track_uri)]

\* the guard dropped: the entry is written whatever the registry holds
MayWriteTrack_Always(registry, track_uri) == TRUE

\* the guard of lines 226-229 and 373: no entry yet, or its playlist_uri is null
MayWriteTrack(registry, track_uri) ==
    \/ track_uri \notin DOMAIN registry
    \/ registry[track_uri].playlist_uri = NoneVal

\* log_track's write to distinct_tracks (lines 226-236)
log_track_registry(registry, track_info) ==
    IF MayWriteTrack(registry, track_info.track_uri)
    THEN DictSet(registry, track_info.track_uri,
                 [album_uri |-> track_info.album_uri,
                  playlist_uri |-> NoneVal,
                  track_title |-> track_info.track_title,
                  track_artists |-> track_info.track_artists,
                  duration_ms |-> track_info.duration_ms])
    ELSE registry


\* log_track putting the new tuple at the head of the ledger
log_track_ledger_Prepend(track_info, user_playlist_id, log_id, status) ==
    <<LedgerEntry(log_id, track_info.track_uri, user_playlist_id, track_info, status)>> \o log_tracks

\* log_track's ledger append (lines 238-250)
log_track_ledger(track_info, user_playlist_id, log_id, status) ==
    Append(log_tracks, LedgerEntry(log_id, track_info.track_uri, user_playlist_id, track_info, status))

\* collect_album staging the album before it decides the status
collect_album_StagesBeforeStatus(album_info, user_playlist_id) ==
    [status |->
        IF InLedger(log_albums, album_info.album_uri, user_playlist_id) THEN SkippedDuring
        ELSE IF album_info.album_uri \in liked_albums_uri /\ user_playlist_id = "0" THEN SkippedBefore
        ELSE Saved,
     playlist_items |->
        IF user_playlist_id # "0"
        THEN DictSet(playlist_items, user_playlist_id,
                     ExtendIfAbsent(ItemsOf(playlist_items, user_playlist_id), album_info.tracks_uri))
        ELSE playlist_items,
     albums_to_like |->
        IF user_playlist_id # "0" THEN albums_to_like
        ELSE Append(albums_to_like, album_info.album_uri)]

\* collect_album: the status, and the staging it leaves behind
collect_album(album_info, user_playlist_id) ==
    IF InLedger(log_albums, album_info.album_uri, user_playlist_id)
    THEN [status |-> SkippedDuring, playlist_items |-> playlist_items, albums_to_like |-> albums_to_like]
    ELSE IF album_info.album_uri \in liked_albums_uri /\ user_playlist_id = "0"
    THEN [status |-> SkippedBefore, playlist_items |-> playlist_items, albums_to_like |-> albums_to_like]
    ELSE IF user_playlist_id # "0"
    THEN [status |-> Saved,
          playlist_items |->
              DictSet(playlist_items, user_playlist_id,
                      ExtendIfAbsent(ItemsOf(playlist_items, user_playlist_id), album_info.tracks_uri)),
          albums_to_like |-> albums_to_like]
    ELSE [status |-> Saved,
          playlist_items |-> playlist_items,
          albums_to_like |-> Append(albums_to_like, album_info.album_uri)]

\* log_album's loop leaving at the first track the guard holds back, instead of
\* going on to the next one
RECURSIVE log_album_tracks_StopAtKnown(_, _, _)
log_album_tracks_StopAtKnown(registry, album_info, i) ==
    IF i > Len(album_info.tracks_info) THEN registry
    ELSE IF ~MayWriteTrack(registry, album_info.tracks_info[i].uri) THEN registry
    ELSE log_album_tracks_StopAtKnown(
            DictSet(registry, album_info.tracks_info[i].uri,
                    [album_uri |-> album_info.album_uri,
                     playlist_uri |-> NoneVal,
                     track_title |-> album_info.tracks_info[i].name,
                     track_artists |-> album_info.album_artists,
                     duration_ms |-> album_info.tracks_info[i].duration_ms]),
            album_info, i + 1)

\* log_album's loop over tracks_info (lines 370-382), from track i on
RECURSIVE log_album_tracks(_, _, _)
log_album_tracks(registry, album_info, i) ==
    IF i > Len(album_info.tracks_info) THEN registry
    ELSE log_album_tracks(
            IF MayWriteTrack(registry, album_info.tracks_info[i].uri)
            THEN DictSet(registry, album_info.tracks_info[i].uri,
                         [album_uri |-> album_info.album_uri,
                          playlist_uri |-> NoneVal,
                          track_title |-> album_info.tracks_info[i].name,
                          track_artists |-> album_info.album_artists,
                          duration_ms |-> album_info.tracks_info[i].duration_ms])
            ELSE registry,
            album_info, i + 1)

\* log_album's write to distinct_albums (lines 363-368)
log_album_registry(album_info) ==
    DictSet(distinct_albums, album_info.album_uri,
            [album_title |-> album_info.album_title,
             album_artists |-> album_info.album_artists,
             duration_ms |-> album_info.duration_ms,
             total_tracks |-> album_info.total_tracks])

\* log_album appending to the ledger only for the status saved
log_album_ledger_SavedOnly(album_info, user_playlist_id, log_id, status) ==
    IF status = Saved
    THEN Append(log_albums, LedgerEntry(log_id, album_info.album_uri, user_playlist_id, album_info, status))
    ELSE log_albums

\* log_album's ledger append (lines 384-396)
log_album_ledger(album_info, user_playlist_id, log_id, status) ==
    Append(log_albums, LedgerEntry(log_id, album_info.album_uri, user_playlist_id, album_info, status))

\* collect_other_playlist staging the playlist for the liked library on every
\* first match, whatever the destination
collect_other_playlist_LikesAnyDest(playlist_info, user_playlist_id) ==
    IF ~InLedger(log_playlists_others, playlist_info.playlist_uri, user_playlist_id)
    THEN [status |-> Saved,
          playlist_items |->
              IF user_playlist_id # "0"
              THEN DictSet(playlist_items, user_playlist_id,
                           ExtendIfAbsent(ItemsOf(playlist_items, user_playlist_id), playlist_info.tracks_uri))
              ELSE playlist_items,
          playlists_to_like |-> Append(playlists_to_like, playlist_info.playlist_id)]
    ELSE [status |-> SkippedDuring, playlist_items |-> playlist_items, playlists_to_like |-> playlists_to_like]

\* collect_other_playlist looking the playlist URI up in the ledger without the
\* destination
collect_other_playlist_UriOnly(playlist_info, user_playlist_id) ==
    IF ~InLedger_UriOnly(log_playlists_others, playlist_info.playlist_uri, user_playlist_id)
    THEN IF user_playlist_id # "0"
         THEN [status |-> Saved,
               playlist_items |->
                   DictSet(playlist_items, user_playlist_id,
                           ExtendIfAbsent(ItemsOf(playlist_items, user_playlist_id), playlist_info.tracks_uri)),
               playlists_to_like |-> playlists_to_like]
         ELSE [status |-> Saved,
               playlist_items |-> playlist_items,
               playlists_to_like |-> Append(playlists_to_like, playlist_info.playlist_id)]
    ELSE [status |-> SkippedDuring, playlist_items |-> playlist_items, playlists_to_like |-> playlists_to_like]

\* collect_other_playlist: the status, and the staging it leaves behind
collect_other_playlist(playlist_info, user_playlist_id) ==
    IF ~InLedger(log_playlists_others, playlist_info.playlist_uri, user_playlist_id)
    THEN IF user_playlist_id # "0"
         THEN [status |-> Saved,
               playlist_items |->
                   DictSet(playlist_items, user_playlist_id,
                           ExtendIfAbsent(ItemsOf(playlist_items, user_playlist_id), playlist_info.tracks_uri)),
               playlists_to_like |-> playlists_to_like]
         ELSE [status |-> Saved,
               playlist_items |-> playlist_items,
               playlists_to_like |-> Append(playlists_to_like, playlist_info.playlist_id)]
    ELSE [status |-> SkippedDuring, playlist_items |-> playlist_items, playlists_to_like |-> playlists_to_like]

\* log_other_playlist's loop over tracks_info (lines 529-538), from track i on:
\* every track is written, whatever the registry holds for it
RECURSIVE log_other_playlist_tracks(_, _, _)
log_other_playlist_tracks(registry, playlist_info, i) ==
    IF i > Len(playlist_info.tracks_info) THEN registry
    ELSE log_other_playlist_tracks(
            DictSet(registry, playlist_info.tracks_info[i].uri,
                    [album_uri |-> playlist_info.tracks_info[i].album_uri,
                     playlist_uri |-> playlist_info.playlist_uri,
                     track_title |-> playlist_info.tracks_info[i].name,
                     track_artists |-> Join(playlist_info.tracks_info[i].artists),
                     duration_ms |-> playlist_info.tracks_info[i].duration_ms]),
            playlist_info, i + 1)

\* log_other_playlist's write to distinct_playlists_others (lines 522-527)
log_other_playlist_registry(playlist_info) ==
    DictSet(distinct_playlists_others, playlist_info.playlist_uri,
            [playlist_title |-> playlist_info.playlist_title,
             playlist_owner |-> playlist_info.playlist_owner,
             duration_ms |-> playlist_info.duration_ms,
             total_tracks |-> playlist_info.total_tracks])

\* log_other_playlist's ledger append (lines 540-552)
log_other_playlist_ledger(playlist_info, user_playlist_id, log_id, status) ==
    Append(log_playlists_others,
           LedgerEntry(log_id, playlist_info.playlist_uri, user_playlist_id, playlist_info, status))


----------------------------------------------------------------------------
(* Resolver: prepare_spotify on one video row.                             *)

\* youtube_channel values; the first holds the marker " - Topic"
Channels == {"Artist1 - Topic", "SomeChannel"}

\* " - Topic" in row["youtube_channel"] (line 126)
IsTopicChannel(channel) == channel = "Artist1 - Topic"

\* the rows df_videos can hold; log_id is the row's number in the run
VideoRows(log_id) ==
    [log_id : {log_id},
     youtube_playlist_id : YoutubePlaylistIds,
     youtube_channel : Channels,
     duration_ms : RowDurations]

\* get_user_playlist_id: playlist.iloc[0, 2] of the matching rows (lines 117-121)
get_user_playlist_id(row) ==
    LET playlist == SelectSeq(df_playlists, LAMBDA r : r.youtube_playlist_id = row.youtube_playlist_id)
    IN  IF playlist = <<>> THEN Raise("IndexError")
        ELSE [tag |-> "value", value |-> playlist[1].spotify_playlist_id]

\* The matches a cascade can hand over, one per catalogue entity, with the rank
\* of the accepted candidate (found_on_try) and the id of the strategy that found it
TrackMatches    == {TrackInfo("t1", 0, 0), TrackInfo("t2", 1, 2), TrackInfo("t3", 0, 3)}
AlbumMatches    == {AlbumInfo("a1", 0, 0), AlbumInfo("a2", 0, 2)}
PlaylistMatches == {PlaylistInfo("p1", 0, 1), PlaylistInfo("p2", 1, 3)}

\* find_track (lines 124-151): the first strategy of a row whose channel is not a
\* topic channel calls qsearch_track without sp, a TypeError; otherwise the outcome
\* is what the search answers make it: a match, no match, or a failed call
FindTrackOutcomes(row) ==
    IF ~IsTopicChannel(row.youtube_channel)
    THEN {Raise("TypeError")}
    ELSE {NoMatch, Raise("SpotifyException")} \cup TrackMatches

\* find_album (lines 253-269); qsearch_album divides by the number of tracks
FindAlbumOutcomes(row) ==
    {NoMatch, Raise("SpotifyException"), Raise("ZeroDivisionError")} \cup AlbumMatches

\* find_other_playlist (lines 399-417)
FindPlaylistOutcomes(row) ==
    {NoMatch, Raise("SpotifyException"), Raise("ZeroDivisionError")} \cup PlaylistMatches

\* an exception leaves prepare_spotify and df_videos.apply: the run state stays as it is
Crash ==
    /\ pc' = "crashed"
    /\ UNCHANGED <<registryVars, stagingVars, ledgerVars>>

\* lines 589-594 with a ledger entry written for a track that was not found
TrackBranch_LogsNotFound(row, user_playlist_id, track_info) ==
    IF track_info.tag = "raise" THEN Crash
    ELSE IF ~IsMatch(track_info)
    THEN /\ log_tracks' = Append(log_tracks,
                 [log_id |-> row.log_id, uri |-> NoneVal,
                  user_playlist_id |-> user_playlist_id, found_on_try |-> NoneVal,
                  difference_ms |-> NoneVal, tracks_in_desc |-> NoneVal, q |-> NoneVal,
                  search_type_id |-> NoneVal, status |-> "not found"])
         /\ pc' = pc
         /\ UNCHANGED <<registryVars, stagingVars, log_albums, log_playlists_others>>
    ELSE LET c == collect_track(track_info, user_playlist_id)
         IN  /\ playlist_items' = c.playlist_items
             /\ tracks_to_like' = c.tracks_to_like
             /\ distinct_tracks' = log_track_registry(distinct_tracks, track_info)
             /\ log_tracks' = log_track_ledger(track_info, user_playlist_id, row.log_id, c.status)
             /\ pc' = pc
             /\ UNCHANGED <<distinct_albums, distinct_playlists_others, albums_to_like,
                            playlists_to_like, log_albums, log_playlists_others>>

\* lines 589-594
TrackBranch(row, user_playlist_id, track_info) ==
    IF track_info.tag = "raise" THEN Crash
    ELSE IF ~IsMatch(track_info)
    THEN /\ pc' = pc
         /\ UNCHANGED <<registryVars, stagingVars, ledgerVars>>
    ELSE LET c == collect_track(track_info, user_playlist_id)
         IN  /\ playlist_items' = c.playlist_items
             /\ tracks_to_like' = c.tracks_to_like
             /\ distinct_tracks' = log_track_registry(distinct_tracks, track_info)
             /\ log_tracks' = log_track_ledger(track_info, user_playlist_id, row.log_id, c.status)
             /\ pc' = pc
             /\ UNCHANGED <<distinct_albums, distinct_playlists_others, albums_to_like,
                            playlists_to_like, log_albums, log_playlists_others>>

\* lines 577-584
PlaylistBranch(row, user_playlist_id, playlist_info) ==
    IF playlist_info.tag = "raise" THEN Crash
    ELSE IF ~IsMatch(playlist_info)
    THEN /\ pc' = pc
         /\ UNCHANGED <<registryVars, stagingVars, ledgerVars>>
    ELSE LET c == collect_other_playlist(playlist_info, user_playlist_id)
         IN  /\ playlist_items' = c.playlist_items
             /\ playlists_to_like' = c.playlists_to_like
             /\ distinct_playlists_others' = log_other_playlist_registry(playlist_info)
             /\ distinct_tracks' = log_other_playlist_tracks(distinct_tracks, playlist_info, 1)
             /\ log_playlists_others' =
                    log_other_playlist_ledger(playlist_info, user_playlist_id, row.log_id, c.status)
             /\ pc' = pc
             /\ UNCHANGED <<distinct_albums, albums_to_like, tracks_to_like, log_albums, log_tracks>>

\* lines 570-584
AlbumBranch(row, user_playlist_id, album_info) ==
    IF album_info.tag = "raise" THEN Crash
    ELSE IF IsMatch(album_info)
    THEN LET c == collect_album(album_info, user_playlist_id)
         IN  /\ playlist_items' = c.playlist_items
             /\ albums_to_like' = c.albums_to_like
             /\ distinct_albums' = log_album_registry(album_info)
             /\ distinct_tracks' = log_album_tracks(distinct_tracks, album_info, 1)
             /\ log_albums' = log_album_ledger(album_info, user_playlist_id, row.log_id, c.status)
             /\ pc' = pc
             /\ UNCHANGED <<distinct_playlists_others, playlists_to_like, tracks_to_like,
                            log_playlists_others, log_tracks>>
    ELSE \E playlist_info \in FindPlaylistOutcomes(row) :
            PlaylistBranch(row, user_playlist_id, playlist_info)

\* prepare_spotify (lines 555-594) on the next row of df_videos
PrepareSpotify ==
    /\ pc = "resolve"
    /\ n_rows < MaxRecords
    /\ n_rows' = n_rows + 1
    /\ UNCHANGED <<envVars, scoreVars, ioVars>>
    /\ \E row \in VideoRows(n_rows + 1) :
        LET user_playlist_id == get_user_playlist_id(row)
        IN  IF user_playlist_id.tag = "raise" THEN Crash
            ELSE IF THRESHOLD_MS.is_set /\ row.duration_ms >= THRESHOLD_MS.value
            THEN \E album_info \in FindAlbumOutcomes(row) :
                    AlbumBranch(row, user_playlist_id.value, album_info)
            ELSE \E track_info \in FindTrackOutcomes(row) :
                    TrackBranch(row, user_playlist_id.value, track_info)

\* no scorer call is modelled in Spec
NoVideo    == [youtube_title |-> <<>>, description |-> <<>>, duration_ms |-> 0]
NoResponse == [type |-> "none", items |-> <<>>]
NotCalled  == [tag |-> "not called"]

Init ==
    /\ distinct_albums = <<>>
    /\ distinct_playlists_others = <<>>
    /\ distinct_tracks = <<>>
    /\ albums_to_like = <<>>
    /\ playlists_to_like = <<>>
    /\ tracks_to_like = <<>>
    /\ playlist_items = <<>>
    /\ log_albums = <<>>
    /\ log_playlists_others = <<>>
    /\ log_tracks = <<>>
    /\ liked_tracks_uri \in SUBSET {"t1"}
    /\ liked_albums_uri \in SUBSET {"a1"}
    /\ THRESHOLD_MS \in {[is_set |-> FALSE, value |-> 0], [is_set |-> TRUE, value |-> ThresholdValue]}
    /\ pc = "resolve"
    /\ n_rows = 0
    /\ video = NoVideo
    /\ response = NoResponse
    /\ result = NotCalled
    /\ searches = <<>>
    /\ sent = <<>>

Next == PrepareSpotify

Spec == Init /\ [][Next]_vars


----------------------------------------------------------------------------
(* Scorers: qsearch_track, qsearch_album, qsearch_playlist.  A string is   *)
(* a sequence of characters.                                               *)

\* str.lower() on one character
LowerChar(c) ==
    CASE c = "A" -> "a"
      [] c = "S" -> "s"
      [] c = "X" -> "x"
      [] OTHER -> c

\* s.lower()
Lower(s) == [i \in 1..Len(s) |-> LowerChar(s[i])]

\* a in b, for strings
IsSubstring(a, b) ==
    \E i \in 0..(Len(b) - Len(a)) : SubSeq(b, i + 1, i + Len(a)) = a

\* line 173 with diff < 5000
TrackAccepted_Strict(diff, track_in_title, artists_in_title) ==
    diff < 5000 \/ (track_in_title # 0 /\ artists_in_title # 0)

\* the track rule (line 173)
TrackAccepted(diff, track_in_title, artists_in_title) ==
    diff <= 5000 \/ (track_in_title # 0 /\ artists_in_title # 0)

\* qsearch_track's loop over tracks["tracks"]["items"] (lines 157-190), from item i on
RECURSIVE qsearch_track_from(_, _, _, _, _)
qsearch_track_from(row, items, i, q, search_type_id) ==
    IF i > Len(items) THEN NoMatch
    ELSE LET track == items[i]
             diff == Abs(track.duration_ms - row.duration_ms)
             artists_in_title ==
                 Cardinality({k \in 1..Len(track.artists) :
                                IsSubstring(Lower(track.artists[k]), Lower(row.youtube_title))})
             track_in_title ==
                 IF IsSubstring(Lower(track.name), Lower(row.youtube_title)) THEN 1 ELSE 0
         IN  IF TrackAccepted(diff, track_in_title, artists_in_title)
             THEN [tag |-> "match",
                   track_uri |-> track.uri,
                   album_uri |-> track.album_uri,
                   track_title |-> track.name,
                   track_artists |-> Join(track.artists),
                   duration_ms |-> track.duration_ms,
                   found_on_try |-> i - 1,
                   difference_ms |-> Abs(diff),
                   tracks_in_desc |-> 1,
                   q |-> q,
                   search_type_id |-> search_type_id]
             ELSE qsearch_track_from(row, items, i + 1, q, search_type_id)

\* qsearch_track leaving out the first item of the answer
qsearch_track_FromSecond(row, items, q, search_type_id) ==
    qsearch_track_from(row, items, 2, q, search_type_id)

\* qsearch_track (lines 154-190) on the answer of sp.search(type="track")
qsearch_track(row, items, q, search_type_id) ==
    qsearch_track_from(row, items, 1, q, search_type_id)

max_diff == 40000

\* (tracks_in_desc / total) * 100, rounded down: Python computes it in floating
\* point and only compares it with 60, which this integer decides the same way
percent_in_desc(tracks_in_desc, total) == (tracks_in_desc * 100) \div total

\* lines 303 and 466 asking for more than 60 percent
ListAccepted_Above60(diff, total, percent) ==
    (Abs(diff) < max_diff) \/ (total >= 4 /\ percent > 60)

\* the album and playlist rule (lines 303 and 466)
ListAccepted(diff, total, percent) ==
    (Abs(diff) < max_diff) \/ (total >= 4 /\ percent >= 60)

\* qsearch_album's loop over the album's tracks (lines 286-294)
RECURSIVE album_tally(_, _, _)
album_tally(row, tracks, acc) ==
    IF tracks = <<>> THEN acc
    ELSE LET track == Head(tracks)
         IN  album_tally(row, Tail(tracks),
                [tracks_uri |-> Append(acc.tracks_uri, track.uri),
                 tracks_info |-> Append(acc.tracks_info,
                                        [uri |-> track.uri, name |-> track.name,
                                         duration_ms |-> track.duration_ms]),
                 tracks_in_desc |->
                     IF IsSubstring(Lower(track.name), row.description)
                     THEN acc.tracks_in_desc + 1 ELSE acc.tracks_in_desc,
                 length |-> acc.length + track.duration_ms,
                 diff |-> acc.diff - track.duration_ms])

\* lines 277-283 and 425-431: the tallies before the loop over the tracks
EmptyTally(row) ==
    [tracks_uri |-> <<>>, tracks_info |-> <<>>, tracks_in_desc |-> 0, length |-> 0,
     diff |-> row.duration_ms]

\* qsearch_album's loop over albums["albums"]["items"] (lines 276-326), from item i on
RECURSIVE qsearch_album_from(_, _, _, _, _)
qsearch_album_from(row, items, i, q, search_type_id) ==
    IF i > Len(items) THEN NoMatch
    ELSE LET album == items[i]
             t == album_tally(row, album.tracks, EmptyTally(row))
         IN  IF Len(t.tracks_uri) = 0 THEN Raise("ZeroDivisionError")
             ELSE IF ListAccepted(t.diff, Len(t.tracks_uri),
                                  percent_in_desc(t.tracks_in_desc, Len(t.tracks_uri)))
             THEN [tag |-> "match",
                   album_uri |-> album.uri,
                   tracks_uri |-> t.tracks_uri,
                   tracks_info |-> t.tracks_info,
                   album_title |-> album.name,
                   album_artists |-> Join(album.artists),
                   duration_ms |-> t.length,
                   total_tracks |-> Len(t.tracks_uri),
                   found_on_try |-> i - 1,
                   difference_ms |-> Abs(t.diff),
                   tracks_in_desc |-> t.tracks_in_desc,
                   q |-> q,
                   search_type_id |-> search_type_id]
             ELSE qsearch_album_from(row, items, i + 1, q, search_type_id)

\* qsearch_album (lines 272-326) on the answer of sp.search(type="album"), each
\* item with the tracks sp.album(uri) lists for it
qsearch_album(row, items, q, search_type_id) ==
    qsearch_album_from(row, items, 1, q, search_type_id)

\* total_tracks counting every entry of the playlist, the deleted ones too
playlist_total_tracks_AllEntries(playlist, tally) == Len(playlist.tracks)

\* total_tracks = len(tracks_uri) (line 459)
playlist_total_tracks(playlist, tally) == Len(tally.tracks_uri)

\* track.get("track", "") (line 436): the entry still holds a track
HasTrack(entry) == entry.tag = "track"

\* qsearch_playlist's loop over the playlist's entries (lines 434-457)
RECURSIVE playlist_tally(_, _, _)
playlist_tally(row, entries, acc) ==
    IF entries = <<>> THEN acc
    ELSE LET track == Head(entries)
         IN  IF HasTrack(track)
             THEN playlist_tally(row, Tail(entries),
                    [tracks_uri |-> Append(acc.tracks_uri, track.uri),
                     tracks_info |-> Append(acc.tracks_info,
                                            [uri |-> track.uri, name |-> track.name,
                                             artists |-> track.artists,
                                             duration_ms |-> track.duration_ms,
                                             album_uri |-> track.album_uri]),
                     tracks_in_desc |->
                         IF IsSubstring(Lower(track.name), row.description)
                         THEN acc.tracks_in_desc + 1 ELSE acc.tracks_in_desc,
                     length |-> acc.length + track.duration_ms,
                     diff |-> acc.diff - track.duration_ms])
             ELSE playlist_tally(row, Tail(entries), acc)

\* qsearch_playlist's loop over playlists["playlists"]["items"] (lines 424-488)
RECURSIVE qsearch_playlist_from(_, _, _, _, _)
qsearch_playlist_from(row, items, i, q, search_type_id) ==
    IF i > Len(items) THEN NoMatch
    ELSE LET playlist == items[i]
             t == playlist_tally(row, playlist.tracks, EmptyTally(row))
             total_tracks == playlist_total_tracks(playlist, t)
         IN  IF total_tracks = 0 THEN Raise("ZeroDivisionError")
             ELSE IF ListAccepted(t.diff, total_tracks,
                                  percent_in_desc(t.tracks_in_desc, total_tracks))
             THEN [tag |-> "match",
                   playlist_uri |-> playlist.uri,
                   playlist_id |-> playlist.id,
                   tracks_uri |-> t.tracks_uri,
                   tracks_info |-> t.tracks_info,
                   playlist_title |-> playlist.name,
                   playlist_owner |-> playlist.owner,
                   duration_ms |-> t.length,
                   total_tracks |-> total_tracks,
                   found_on_try |-> i - 1,
                   difference_ms |-> Abs(t.diff),
                   tracks_in_desc |-> t.tracks_in_desc,
                   q |-> q,
                   search_type_id |-> search_type_id]
             ELSE qsearch_playlist_from(row, items, i + 1, q, search_type_id)

\* qsearch_playlist (lines 420-488) on the answer of sp.search(type="playlist"),
\* each item with the entries sp.playlist(uri) lists for it
qsearch_playlist(row, items, q, search_type_id) ==
    qsearch_playlist_from(row, items, 1, q, search_type_id)

----------------------------------------------------------------------------
(* SpecScore: one call of a scorer on a video row and a search answer.     *)

SeqsUpTo(S, n) == UNION {[1..k -> S] : k \in 0..n}

\* limit= of the calls in find_track, find_album and find_other_playlist
track_limit    == 2
album_limit    == 1
playlist_limit == 2

\* video rows for the track rule: the title decides the substring tests
TrackVideos ==
    [youtube_title : {<<"a", "-", "S">>, <<"S">>, <<"x">>},
     description : {<<>>},
     duration_ms : {180000}]

\* a track item without its URI: durations 5000 and 5001 ms off the row's, both ways
TrackShapes ==
    [name : {<<"S">>, <<"-", "s">>, <<"X", "S">>},
     artists : SeqsUpTo({<<"A">>, <<"b">>}, MaxArtists),
     duration_ms : {174999, 175000, 185000, 185001}]

\* the item of rank i carries its own URI
TrackItem(shape, i) ==
    [uri |-> IF i = 1 THEN "t1" ELSE IF i = 2 THEN "t2" ELSE "t3",
     album_uri |-> "a1",
     name |-> shape.name,
     artists |-> shape.artists,
     duration_ms |-> shape.duration_ms]

TrackResponses ==
    {[type |-> "track", items |-> [i \in 1..Len(shapes) |-> TrackItem(shapes[i], i)]] :
        shapes \in SeqsUpTo(TrackShapes, track_limit)}

\* video rows for the album and playlist rules; the description is lower case
\* (extract_videos, line 65)
ListVideos ==
    [youtube_title : {<<"S">>},
     description : {<<"s", " ", "x">>, <<"s">>},
     duration_ms : {99999, 100000}]

\* the tracks an album lists (sp.album)
AlbumTrackSamples ==
    { [uri |-> "t1", name |-> <<"S">>, duration_ms |-> 10000],
      [uri |-> "t2", name |-> <<"S">>, duration_ms |-> 50000],
      [uri |-> "t3", name |-> <<"X">>, duration_ms |-> 50000],
      [uri |-> "t4", name |-> <<"q">>, duration_ms |-> 10000] }

AlbumItems ==
    [uri : {"a1"},
     name : {<<"A">>},
     artists : {<< <<"A">>, <<"b">> >>},
     tracks : SeqsUpTo(AlbumTrackSamples, MaxAlbumTracks)]

AlbumResponses ==
    {[type |-> "album", items |-> items] : items \in SeqsUpTo(AlbumItems, album_limit)}

\* the entries a playlist lists (sp.playlist): a track, or an entry whose track is gone
MissingTrack == [tag |-> "None"]

PlaylistEntrySamples ==
    { [tag |-> "track", uri |-> "t1", name |-> <<"S">>, artists |-> << <<"A">> >>,
       duration_ms |-> 10000, album_uri |-> "a1"],
      [tag |-> "track", uri |-> "t4", name |-> <<"q">>, artists |-> << <<"A">>, <<"b">> >>,
       duration_ms |-> 50000, album_uri |-> "a2"],
      MissingTrack }

PlaylistShapes == SeqsUpTo(PlaylistEntrySamples, MaxPlaylistEntries)

\* the item of rank i carries its own URI and id
PlaylistItem(entries, i) ==
    [uri |-> IF i = 1 THEN "p1" ELSE IF i = 2 THEN "p2" ELSE "p3",
     id |-> IF i = 1 THEN "id1" ELSE IF i = 2 THEN "id2" ELSE "id3",
     name |-> <<"S">>,
     owner |-> <<"b">>,
     tracks |-> entries]

PlaylistResponses ==
    {[type |-> "playlist", items |-> [i \in 1..Len(shapes) |-> PlaylistItem(shapes[i], i)]] :
        shapes \in SeqsUpTo(PlaylistShapes, playlist_limit)}

\* the query a cascade passes down with the call
ScoreQuery == [q |-> <<"S">>, search_type_id |-> 1]

InitScore ==
    /\ distinct_albums = <<>>
    /\ distinct_playlists_others = <<>>
    /\ distinct_tracks = <<>>
    /\ albums_to_like = <<>>
    /\ playlists_to_like = <<>>
    /\ tracks_to_like = <<>>
    /\ playlist_items = <<>>
    /\ log_albums = <<>>
    /\ log_playlists_others = <<>>
    /\ log_tracks = <<>>
    /\ liked_tracks_uri = {}
    /\ liked_albums_uri = {}
    /\ THRESHOLD_MS = [is_set |-> TRUE, value |-> ThresholdValue]
    /\ pc = "score"
    /\ n_rows = 0
    /\ result = NotCalled
    /\ searches = <<>>
    /\ sent = <<>>
    /\ \/ video \in TrackVideos /\ response \in TrackResponses
       \/ video \in ListVideos /\ response \in AlbumResponses
       \/ video \in ListVideos /\ response \in PlaylistResponses

QsearchTrack ==
    /\ pc = "score" /\ result.tag = "not called" /\ response.type = "track"
    /\ result' = qsearch_track(video, response.items, ScoreQuery.q, ScoreQuery.search_type_id)
    /\ UNCHANGED <<runVars, video, response, ioVars>>

QsearchAlbum ==
    /\ pc = "score" /\ result.tag = "not called" /\ response.type = "album"
    /\ result' = qsearch_album(video, response.items, ScoreQuery.q, ScoreQuery.search_type_id)
    /\ UNCHANGED <<runVars, video, response, ioVars>>

QsearchPlaylist ==
    /\ pc = "score" /\ result.tag = "not called" /\ response.type = "playlist"
    /\ result' = qsearch_playlist(video, response.items, ScoreQuery.q, ScoreQuery.search_type_id)
    /\ UNCHANGED <<runVars, video, response, ioVars>>

NextScore == QsearchTrack \/ QsearchAlbum \/ QsearchPlaylist

SpecScore == InitScore /\ [][NextScore]_vars

----------------------------------------------------------------------------
(* Title normalizer: fix_youtube_title.                                    *)

\* titles of at most this many characters
MaxTitleLen == 5

\* the full-width brackets of the pattern, each one character of a title
FullOpen  == "U+3010"
FullClose == "U+3011"

\* the three bracket pairs of the pattern (line 112)
Brackets == { <<"(", ")">>, <<"[", "]">>, <<FullOpen, FullClose>> }

IsOpener(c) == \E b \in Brackets : b[1] = c

CloserOf(c) == (CHOOSE b \in Brackets : b[1] = c)[2]

\* "." of the pattern: any character but a newline
Dot(c) == c # "\n"

\* the match at s[1] taken up to the last closer (.* instead of .*?)
MatchEnd_Greedy(s) ==
    IF s = <<>> \/ ~IsOpener(Head(s)) THEN 0
    ELSE LET ends == {j \in 2..Len(s) :
                        /\ s[j] = CloserOf(s[1])
                        /\ \A k \in 2..(j - 1) : Dot(s[k])}
         IN  IF ends = {} THEN 0
             ELSE CHOOSE j \in ends : \A k \in ends : j >= k

\* where the match of \((.*?)\) (or of the [ ] or the full-width alternative) that
\* starts at s[1] ends: the first closer after it, with only "." characters in
\* between (.*? is not greedy); 0 when there is no match at s[1]
MatchEnd(s) ==
    IF s = <<>> \/ ~IsOpener(Head(s)) THEN 0
    ELSE LET ends == {j \in 2..Len(s) :
                        /\ s[j] = CloserOf(s[1])
                        /\ \A k \in 2..(j - 1) : Dot(s[k])}
         IN  IF ends = {} THEN 0
             ELSE CHOOSE j \in ends : \A k \in ends : j <= k

\* re.sub(pattern, "", s) replacing the first match only (count=1)
RECURSIVE re_sub_brackets_FirstOnly(_)
re_sub_brackets_FirstOnly(s) ==
    IF s = <<>> THEN <<>>
    ELSE IF MatchEnd(s) > 0
         THEN SubSeq(s, MatchEnd(s) + 1, Len(s))
         ELSE <<Head(s)>> \o re_sub_brackets_FirstOnly(Tail(s))

\* re.sub(pattern, "", s) (line 112): the matches are found from left to right,
\* each search starting where the previous match ended
RECURSIVE re_sub_brackets(_)
re_sub_brackets(s) ==
    IF s = <<>> THEN <<>>
    ELSE IF MatchEnd(s) > 0
         THEN re_sub_brackets(SubSeq(s, MatchEnd(s) + 1, Len(s)))
         ELSE <<Head(s)>> \o re_sub_brackets(Tail(s))

\* fix_youtube_title (lines 104-114)
fix_youtube_title(youtube_title) == re_sub_brackets(youtube_title)

\* the characters of a title: the brackets, a letter, a space
TitleAlphabet == {"(", ")", "[", "]", FullOpen, FullClose, "a", " "}

Titles == UNION {[1..k -> TitleAlphabet] : k \in 0..MaxTitleLen}

\* the title of the examples of the comment of line 111, with an album name
AlbumTitle == <<"A", "l", "b", "u", "m", " ", "N", "a", "m", "e", " ", "(", "2", "0", "2", "1", ")", " ", "[", "F", "u", "l", "l", " ", "A", "l", "b", "u", "m", "]">>

InitTitle ==
    /\ distinct_albums = <<>>
    /\ distinct_playlists_others = <<>>
    /\ distinct_tracks = <<>>
    /\ albums_to_like = <<>>
    /\ playlists_to_like = <<>>
    /\ tracks_to_like = <<>>
    /\ playlist_items = <<>>
    /\ log_albums = <<>>
    /\ log_playlists_others = <<>>
    /\ log_tracks = <<>>
    /\ liked_tracks_uri = {}
    /\ liked_albums_uri = {}
    /\ THRESHOLD_MS = [is_set |-> TRUE, value |-> ThresholdValue]
    /\ pc = "title"
    /\ n_rows = 0
    /\ video \in [youtube_title : Titles \cup {AlbumTitle}, description : {<<>>},
                 duration_ms : {ThresholdValue}]
    /\ response = NoResponse
    /\ result = NotCalled
    /\ searches = <<>>
    /\ sent = <<>>

\* youtube_title = fix_youtube_title(row["youtube_title"]) (line 254)
FixYoutubeTitle ==
    /\ pc = "title" /\ result.tag = "not called"
    /\ result' = [tag |-> "value", value |-> fix_youtube_title(video.youtube_title)]
    /\ UNCHANGED <<runVars, video, response, ioVars>>

NextTitle == FixYoutubeTitle

SpecTitle == InitTitle /\ [][NextTitle]_vars

----------------------------------------------------------------------------
(* Cascades: find_track, find_album, find_other_playlist, with the calls   *)
(* they make on the Spotify client.  Strings are sequences of characters.  *)

\* " - Topic" (lines 126, 127, 145)
topic_marker == <<" ", "-", " ", "T", "o", "p", "i", "c">>

\* the literal pieces of the f-strings of lines 130, 140, 146, 258, 407, 412
str_track_colon  == <<"t", "r", "a", "c", "k", ":">>
str_artist_colon == <<" ", "a", "r", "t", "i", "s", "t", ":">>
str_track_quote  == <<"t", "r", "a", "c", "k", " ", "\"">>
str_album_quote  == <<"a", "l", "b", "u", "m", " ", "\"">>
str_playlist_quote == <<"p", "l", "a", "y", "l", "i", "s", "t", " ", "\"">>
str_quote        == <<"\"">>
str_space        == <<" ">>
str_apostrophe   == <<"'">>

\* re.sub(pattern, repl, s) for a pattern without special characters
RECURSIVE re_sub(_, _, _)
re_sub(pattern, repl, s) ==
    IF Len(s) < Len(pattern) THEN s
    ELSE IF SubSeq(s, 1, Len(pattern)) = pattern
         THEN repl \o re_sub(pattern, repl, SubSeq(s, Len(pattern) + 1, Len(s)))
         ELSE <<Head(s)>> \o re_sub(pattern, repl, Tail(s))

\* what sp.search answers to one call: the ranked items, each with the detail
\* sp.album / sp.playlist gives for it, or the call (or a detail call) fails
Items(items) == [tag |-> "items", items |-> items]
Failure      == Raise("SpotifyException")

\* qsearch_track / qsearch_album / qsearch_playlist on the client's answer
search_track(row, answer, q, search_type_id) ==
    IF answer.tag = "raise" THEN answer
    ELSE qsearch_track(row, answer.items, q, search_type_id)

search_album(row, answer, q, search_type_id) ==
    IF answer.tag = "raise" THEN answer
    ELSE qsearch_album(row, answer.items, q, search_type_id)

search_playlist(row, answer, q, search_type_id) ==
    IF answer.tag = "raise" THEN answer
    ELSE qsearch_playlist(row, answer.items, q, search_type_id)

\* one sp.search(q=q, limit=limit, type=type) call (lines 155, 274, 422), with the
\* search_type_id of the strategy that made it and how its qsearch_* call ended
SearchCall(type, q, limit, search_type_id, info) ==
    [type |-> type, q |-> q, limit |-> limit, search_type_id |-> search_type_id,
     outcome |-> info.tag]

\* a strategy was run: its qsearch_* call returned (or raised) info after one search
Tried(calls, type, q, limit, search_type_id, info) ==
    [info |-> info, calls |-> Append(calls, SearchCall(type, q, limit, search_type_id, info))]

\* "if not track_info": the strategies so far returned None
NotFound(try) == try.info.tag = "None"

\* find_track (lines 124-151): what it returns or raises, and its search calls.
\* sp.track[k] is the client's answer to the search of the k-th strategy.
find_track(row, sp) ==
    LET title  == row.youtube_title
        artist == re_sub(str_apostrophe, str_space, re_sub(topic_marker, <<>>, row.youtube_channel))
        q0     == str_track_colon \o title \o str_artist_colon \o artist
        first  == IF IsSubstring(topic_marker, row.youtube_channel)
                  THEN Tried(<<>>, "track", q0, track_limit, 0, search_track(row, sp.track[1], q0, 0))
                  \* line 134: qsearch_track is called without sp, a TypeError
                  ELSE [info |-> Raise("TypeError"), calls |-> <<>>]
        q2     == str_track_quote \o title \o str_quote
        second == IF NotFound(first)
                  THEN Tried(first.calls, "track", q2, track_limit, 2,
                             search_track(row, sp.track[2], q2, 2))
                  ELSE first
        q3     == re_sub(topic_marker, <<>>, row.youtube_channel) \o str_space \o title
        third  == IF NotFound(second)
                  THEN Tried(second.calls, "track", q3, track_limit, 3,
                             search_track(row, sp.track[3], q3, 3))
                  ELSE second
    IN  third

\* find_album with the searches on the raw and on the normalized title swapped
find_album_RawTitleFirst(row, sp) ==
    LET youtube_title == fix_youtube_title(row.youtube_title)
        first  == Tried(<<>>, "album", row.youtube_title, album_limit, 0,
                        search_album(row, sp.album[1], row.youtube_title, 0))
        q      == str_album_quote \o youtube_title \o str_quote
        second == IF NotFound(first)
                  THEN Tried(first.calls, "album", q, album_limit, 1,
                             search_album(row, sp.album[2], q, 1))
                  ELSE first
        third  == IF NotFound(second)
                  THEN Tried(second.calls, "album", youtube_title, album_limit, 2,
                             search_album(row, sp.album[3], youtube_title, 2))
                  ELSE second
    IN  third

\* find_album (lines 253-269)
find_album(row, sp) ==
    LET youtube_title == fix_youtube_title(row.youtube_title)
        first  == Tried(<<>>, "album", youtube_title, album_limit, 0,
                        search_album(row, sp.album[1], youtube_title, 0))
        q      == str_album_quote \o youtube_title \o str_quote
        second == IF NotFound(first)
                  THEN Tried(first.calls, "album", q, album_limit, 1,
                             search_album(row, sp.album[2], q, 1))
                  ELSE first
        third  == IF NotFound(second)
                  THEN Tried(second.calls, "album", row.youtube_title, album_limit, 2,
                             search_album(row, sp.album[3], row.youtube_title, 2))
                  ELSE second
    IN  third

\* find_other_playlist (lines 399-417)
find_other_playlist(row, sp) ==
    LET title  == row.youtube_title
        first  == Tried(<<>>, "playlist", title, playlist_limit, 1,
                        search_playlist(row, sp.playlist[1], title, 1))
        q2     == str_playlist_quote \o title \o str_quote
        second == IF NotFound(first)
                  THEN Tried(first.calls, "playlist", q2, playlist_limit, 2,
                             search_playlist(row, sp.playlist[2], q2, 2))
                  ELSE first
        q3     == row.youtube_channel \o str_space \o title
        third  == IF NotFound(second)
                  THEN Tried(second.calls, "playlist", q3, playlist_limit, 3,
                             search_playlist(row, sp.playlist[3], q3, 3))
                  ELSE second
    IN  third

\* the branch condition with a strict comparison
IsAlbumOrPlaylist_Above(row) ==
    THRESHOLD_MS.is_set /\ row.duration_ms > THRESHOLD_MS.value

\* line 567: THRESHOLD_MS is specified and the duration of the video is greater
\* than or equal to it
IsAlbumOrPlaylist(row) ==
    THRESHOLD_MS.is_set /\ row.duration_ms >= THRESHOLD_MS.value

\* a cascade prepare_spotify did not run
NotRun == [info |-> NotCalled, calls |-> <<>>]

\* prepare_spotify running the playlist cascade whatever find_album returned
prepare_spotify_PlaylistAlways(row, sp) ==
    LET user_playlist_id == get_user_playlist_id(row)
    IN  IF user_playlist_id.tag = "raise"
        THEN [tag |-> "resolved", user_playlist_id |-> user_playlist_id,
              album_info |-> NotCalled, playlist_info |-> NotCalled, track_info |-> NotCalled,
              calls |-> <<>>]
        ELSE LET album    == IF IsAlbumOrPlaylist(row) THEN find_album(row, sp) ELSE NotRun
                 playlist == IF IsAlbumOrPlaylist(row) THEN find_other_playlist(row, sp) ELSE NotRun
                 track    == IF IsAlbumOrPlaylist(row) THEN NotRun ELSE find_track(row, sp)
             IN  [tag |-> "resolved", user_playlist_id |-> user_playlist_id,
                  album_info |-> album.info, playlist_info |-> playlist.info,
                  track_info |-> track.info,
                  calls |-> album.calls \o playlist.calls \o track.calls]

\* prepare_spotify (lines 555-594) up to the collector: the destination, what
\* each cascade it ran returned or raised, and the search calls in order
prepare_spotify(row, sp) ==
    LET user_playlist_id == get_user_playlist_id(row)
    IN  IF user_playlist_id.tag = "raise"
        THEN [tag |-> "resolved", user_playlist_id |-> user_playlist_id,
              album_info |-> NotCalled, playlist_info |-> NotCalled, track_info |-> NotCalled,
              calls |-> <<>>]
        ELSE LET album    == IF IsAlbumOrPlaylist(row) THEN find_album(row, sp) ELSE NotRun
                 playlist == IF IsAlbumOrPlaylist(row) /\ NotFound(album)
                             THEN find_other_playlist(row, sp) ELSE NotRun
                 track    == IF IsAlbumOrPlaylist(row) THEN NotRun ELSE find_track(row, sp)
             IN  [tag |-> "resolved", user_playlist_id |-> user_playlist_id,
                  album_info |-> album.info, playlist_info |-> playlist.info,
                  track_info |-> track.info,
                  calls |-> album.calls \o playlist.calls \o track.calls]

----------------------------------------------------------------------------
(* SpecMain: main from the resolve loop (line 806) to the end of the flush *)
(* (line 815), with the cascades and the scorers run on what the Spotify   *)
(* client answers.                                                         *)

\* video records per run of SpecMain
MaxMainRecords == 2

\* the rows df_videos can hold: a topic-channel video, a video of another channel,
\* and a long video whose title carries a bracketed span
MainVideos ==
    { [youtube_title |-> <<"A", "r", "t", "i", "s", "t", " ", "-", " ", "S", "o", "n", "g">>, youtube_channel |-> <<"A", "r", "t", "i", "s", "t", " ", "-", " ", "T", "o", "p", "i", "c">>,
       description |-> <<>>, duration_ms |-> 180000],
      [youtube_title |-> <<"S", "o", "n", "g">>, youtube_channel |-> <<"C", "h", "a", "n">>,
       description |-> <<>>, duration_ms |-> 180000],
      [youtube_title |-> <<"A", "S", " ", "(", "x", ")">>, youtube_channel |-> <<"C", "h", "a", "n">>,
       description |-> <<"s", "o", "n", "g">>, duration_ms |-> ThresholdValue] }

\* the row number log_id with its video and its youtube_playlist_id
MainRows(log_id) ==
    { [log_id |-> log_id,
       youtube_playlist_id |-> y,
       youtube_title |-> v.youtube_title,
       youtube_channel |-> v.youtube_channel,
       description |-> v.description,
       duration_ms |-> v.duration_ms] : y \in YoutubePlaylistIds, v \in MainVideos }

\* track items of the catalogue: the first is 2000 ms off the short videos
GoodTrack ==
    [uri |-> "t1", album_uri |-> "a1", name |-> <<"S", "o", "n", "g">>, artists |-> << <<"A", "r", "t", "i", "s", "t">> >>,
     duration_ms |-> 182000]
BadTrack ==
    [uri |-> "t2", album_uri |-> "a2", name |-> <<"X">>, artists |-> << <<"b">> >>,
     duration_ms |-> 999999]

\* album items with their sp.album track lists: as long as the long video, far
\* from it, and without tracks
GoodAlbum ==
    [uri |-> "a1", name |-> <<"A", "S">>, artists |-> << <<"A", "r", "t", "i", "s", "t">> >>,
     tracks |-> << [uri |-> "t1", name |-> <<"S", "o", "n", "g">>, duration_ms |-> 300000],
                   [uri |-> "t2", name |-> <<"X">>, duration_ms |-> 300000] >>]
BadAlbum ==
    [uri |-> "a2", name |-> <<"X">>, artists |-> << <<"b">> >>,
     tracks |-> << [uri |-> "t3", name |-> <<"q">>, duration_ms |-> 10000] >>]
EmptyAlbum ==
    [uri |-> "a3", name |-> <<"q">>, artists |-> << <<"b">> >>, tracks |-> <<>>]

\* playlist items with their sp.playlist entries
GoodPlaylist ==
    [uri |-> "p1", id |-> "id1", name |-> <<"A", "S">>, owner |-> <<"b">>,
     tracks |-> << [tag |-> "track", uri |-> "t2", name |-> <<"X">>, artists |-> << <<"b">> >>,
                    duration_ms |-> 300000, album_uri |-> "a1"],
                   MissingTrack,
                   [tag |-> "track", uri |-> "t3", name |-> <<"q">>, artists |-> << <<"b">> >>,
                    duration_ms |-> 300000, album_uri |-> "a2"] >>]
BadPlaylist ==
    [uri |-> "p2", id |-> "id2", name |-> <<"X">>, owner |-> <<"b">>,
     tracks |-> << [tag |-> "track", uri |-> "t3", name |-> <<"q">>, artists |-> << <<"b">> >>,
                    duration_ms |-> 10000, album_uri |-> "a2"] >>]
EmptyPlaylist ==
    [uri |-> "p3", id |-> "id3", name |-> <<"q">>, owner |-> <<"b">>, tracks |-> << MissingTrack >>]

\* what the client answers to the three searches of a track cascade, in the order
\* of the strategies: at most track_limit items per answer
TrackScenarios ==
    { << Items(<<GoodTrack>>), Items(<<>>), Items(<<>>) >>,
      << Items(<<BadTrack, GoodTrack>>), Items(<<>>), Items(<<>>) >>,
      << Items(<<BadTrack>>), Items(<<GoodTrack>>), Items(<<>>) >>,
      << Items(<<>>), Items(<<>>), Items(<<BadTrack, GoodTrack>>) >>,
      << Items(<<BadTrack>>), Items(<<>>), Items(<<BadTrack>>) >>,
      << Failure, Items(<<>>), Items(<<>>) >>,
      << Items(<<>>), Failure, Items(<<>>) >> }

\* the same for an album cascade (album_limit items) ...
AlbumScenarios ==
    { << Items(<<GoodAlbum>>), Items(<<>>), Items(<<>>) >>,
      << Items(<<BadAlbum>>), Items(<<GoodAlbum>>), Items(<<>>) >>,
      << Items(<<>>), Items(<<BadAlbum>>), Items(<<GoodAlbum>>) >>,
      << Items(<<BadAlbum>>), Items(<<>>), Items(<<BadAlbum>>) >>,
      << Items(<<EmptyAlbum>>), Items(<<>>), Items(<<>>) >>,
      << Items(<<>>), Failure, Items(<<>>) >> }

\* ... and for a playlist cascade (playlist_limit items)
PlaylistScenarios ==
    { << Items(<<GoodPlaylist>>), Items(<<>>), Items(<<>>) >>,
      << Items(<<BadPlaylist, GoodPlaylist>>), Items(<<>>), Items(<<>>) >>,
      << Items(<<BadPlaylist>>), Items(<<>>), Items(<<GoodPlaylist>>) >>,
      << Items(<<>>), Items(<<BadPlaylist>>), Items(<<>>) >>,
      << Items(<<>>), Items(<<BadPlaylist, EmptyPlaylist>>), Items(<<>>) >>,
      << Failure, Items(<<>>), Items(<<>>) >> }

NothingFound == << Items(<<>>), Items(<<>>), Items(<<>>) >>

\* the Spotify client sp as one call of prepare_spotify sees it: every row is
\* tried with every catalogue
Catalogues ==
    {[track |-> t, album |-> NothingFound, playlist |-> NothingFound] : t \in TrackScenarios}
    \cup {[track |-> NothingFound, album |-> a, playlist |-> p] :
            a \in AlbumScenarios, p \in {NothingFound, << Items(<<GoodPlaylist>>), Items(<<>>), Items(<<>>) >>}}
    \cup {[track |-> NothingFound, album |-> NothingFound, playlist |-> p] : p \in PlaylistScenarios}

\* the flush: like_albums, like_playlists, like_tracks, populate_user_playlists

\* items per call of split_to_50size_chunks
ChunkSize == 50

\* split_to_50size_chunks(list) of youtube_elt
RECURSIVE split_to_50size_chunks(_)
split_to_50size_chunks(list) ==
    IF list = <<>> THEN <<>>
    ELSE IF Len(list) <= ChunkSize THEN <<list>>
    ELSE <<SubSeq(list, 1, ChunkSize)>> \o split_to_50size_chunks(SubSeq(list, ChunkSize + 1, Len(list)))

\* the calls of like_albums (lines 601-605), in order, when none raises
like_albums(list) ==
    [i \in 1..Len(split_to_50size_chunks(list)) |->
        [call |-> "current_user_saved_albums_add", uris |-> split_to_50size_chunks(list)[i],
         raised |-> FALSE]]

\* like_playlists leaving out the last id of the list
like_playlists_SkipsLast(list) ==
    [i \in 1..(Len(list) - 1) |->
        [call |-> "current_user_follow_playlist", playlist_id |-> list[i], raised |-> FALSE]]

\* the calls of like_playlists (lines 614-616)
like_playlists(list) ==
    [i \in 1..Len(list) |->
        [call |-> "current_user_follow_playlist", playlist_id |-> list[i], raised |-> FALSE]]

\* the calls of like_tracks (lines 625-629)
like_tracks(list) ==
    [i \in 1..Len(split_to_50size_chunks(list)) |->
        [call |-> "current_user_saved_tracks_add", uris |-> split_to_50size_chunks(list)[i],
         raised |-> FALSE]]

\* all the uris of a user playlist sent in one call
playlist_add_items_Unchunked(user_playlist_id, tracks_uri) ==
    << [call |-> "playlist_add_items", playlist_id |-> user_playlist_id,
        uris |-> tracks_uri, raised |-> FALSE] >>

\* lines 642-645 for one user playlist
playlist_add_items(user_playlist_id, tracks_uri) ==
    [i \in 1..Len(split_to_50size_chunks(tracks_uri)) |->
        [call |-> "playlist_add_items", playlist_id |-> user_playlist_id,
         uris |-> split_to_50size_chunks(tracks_uri)[i], raised |-> FALSE]]

\* the calls of populate_user_playlists (lines 641-645): playlist_items.items() in
\* the order the keys were inserted, which the map of the model does not keep
RECURSIVE populate_user_playlists(_, _)
populate_user_playlists(items, order) ==
    IF order = <<>> THEN <<>>
    ELSE playlist_add_items(Head(order), items[Head(order)])
         \o populate_user_playlists(items, Tail(order))

\* the orders playlist_items.items() can have
KeyOrders(items) ==
    {order \in [1..Cardinality(DOMAIN items) -> DOMAIN items] :
        \A i, j \in 1..Cardinality(DOMAIN items) : order[i] = order[j] => i = j}

\* the for loop going on after a call raised
IssueCalls_Continue(calls, fail_at) ==
    [i \in 1..Len(calls) |-> IF i = fail_at THEN [calls[i] EXCEPT !.raised = TRUE] ELSE calls[i]]

\* the calls a for loop over calls makes when its call number fail_at raises
\* (0: none raises): nothing is caught, the loop ends with the raising call
IssueCalls(calls, fail_at) ==
    IF fail_at = 0 THEN calls
    ELSE [i \in 1..fail_at |-> IF i = fail_at THEN [calls[i] EXCEPT !.raised = TRUE] ELSE calls[i]]

\* one call site of lines 812-815: its calls go out until one raises, and an
\* exception leaves main
CallSite(calls, next_pc) ==
    \E fail_at \in 0..Len(calls) :
        /\ sent' = sent \o IssueCalls(calls, fail_at)
        /\ pc' = IF fail_at = 0 THEN next_pc ELSE "crashed"

InitMain ==
    /\ distinct_albums = <<>>
    /\ distinct_playlists_others = <<>>
    /\ distinct_tracks = <<>>
    /\ albums_to_like = <<>>
    /\ playlists_to_like = <<>>
    /\ tracks_to_like = <<>>
    /\ playlist_items = <<>>
    /\ log_albums = <<>>
    /\ log_playlists_others = <<>>
    /\ log_tracks = <<>>
    /\ liked_tracks_uri \in SUBSET {"t1"}
    /\ liked_albums_uri \in SUBSET {"a1"}
    /\ THRESHOLD_MS \in {[is_set |-> FALSE, value |-> 0], [is_set |-> TRUE, value |-> ThresholdValue]}
    /\ pc = "resolve"
    /\ n_rows = 0
    /\ video = NoVideo
    /\ response = NoResponse
    /\ result = NotCalled
    /\ searches = <<>>
    /\ sent = <<>>

\* prepare_spotify(row, sp, ...) (lines 555-594): the cascades, then the collector
Resolve(row, sp) ==
    \E r \in {prepare_spotify(row, sp)} :
        /\ video' = row
        /\ result' = [tag |-> r.tag, user_playlist_id |-> r.user_playlist_id,
                      album_info |-> r.album_info, playlist_info |-> r.playlist_info,
                      track_info |-> r.track_info]
        /\ searches' = r.calls
        /\ IF r.user_playlist_id.tag = "raise" THEN Crash
           ELSE IF r.track_info.tag # "not called"
           THEN TrackBranch(row, r.user_playlist_id.value, r.track_info)
           ELSE IF r.playlist_info.tag # "not called"
           THEN PlaylistBranch(row, r.user_playlist_id.value, r.playlist_info)
           ELSE AlbumBranch(row, r.user_playlist_id.value, r.album_info)

\* prepare_spotify (lines 555-594) on the next row of df_videos
ResolveRecord ==
    /\ pc = "resolve"
    /\ n_rows < MaxMainRecords
    /\ n_rows' = n_rows + 1
    /\ UNCHANGED <<envVars, response, sent>>
    /\ \E row \in MainRows(n_rows + 1), sp \in Catalogues : Resolve(row, sp)

\* df_videos.apply (lines 806-810) returns: every row has been resolved
EndResolve ==
    /\ pc = "resolve"
    /\ pc' = "like_albums"
    /\ UNCHANGED <<registryVars, stagingVars, ledgerVars, envVars, n_rows, scoreVars, searches, sent>>

\* like_albums(sp, albums_to_like) (line 812)
LikeAlbums ==
    /\ pc = "like_albums"
    /\ CallSite(like_albums(albums_to_like), "like_playlists")
    /\ UNCHANGED <<registryVars, stagingVars, ledgerVars, envVars, n_rows, scoreVars, searches>>

\* like_playlists(sp, playlists_to_like) (line 813)
LikePlaylists ==
    /\ pc = "like_playlists"
    /\ CallSite(like_playlists(playlists_to_like), "like_tracks")
    /\ UNCHANGED <<registryVars, stagingVars, ledgerVars, envVars, n_rows, scoreVars, searches>>

\* like_tracks(sp, tracks_to_like) (line 814)
LikeTracks ==
    /\ pc = "like_tracks"
    /\ CallSite(like_tracks(tracks_to_like), "populate_user_playlists")
    /\ UNCHANGED <<registryVars, stagingVars, ledgerVars, envVars, n_rows, scoreVars, searches>>

\* populate_user_playlists(sp, playlist_items, df_playlists) (line 815); every key
\* of playlist_items is a spotify_playlist_id of df_playlists, so line 648 finds
\* its row
PopulateUserPlaylists ==
    /\ pc = "populate_user_playlists"
    /\ \E order \in KeyOrders(playlist_items) :
          CallSite(populate_user_playlists(playlist_items, order), "done")
    /\ UNCHANGED <<registryVars, stagingVars, ledgerVars, envVars, n_rows, scoreVars, searches>>

NextMain ==
    \/ ResolveRecord
    \/ EndResolve
    \/ LikeAlbums
    \/ LikePlaylists
    \/ LikeTracks
    \/ PopulateUserPlaylists

SpecMain == InitMain /\ [][NextMain]_vars

----------------------------------------------------------------------------
(* SpecFlush: the flush of main (lines 812-815) on staged lists longer than *)
(* one chunk.  The flush reads the staging only: the registries and the    *)
(* ledgers are left empty.                                                  *)

\* the longest staged list: two full chunks and one item
MaxStaged == 101

\* n distinct uris
Uris(n) == [i \in 1..n |-> ToString(i)]

\* the staged lists at line 812; they hold no uri twice
StagedLikeLists == {Uris(n) : n \in 0..MaxStaged}
StagedPlaylistIds == {<<>>, <<"id1", "id2", "id3">>}
StagedPlaylistItems ==
    {<<>>, DictSet(DictSet(<<>>, "u1", Uris(MaxStaged)), "u2", Uris(ChunkSize))}

InitFlush ==
    /\ distinct_albums = <<>>
    /\ distinct_playlists_others = <<>>
    /\ distinct_tracks = <<>>
    /\ albums_to_like \in StagedLikeLists
    /\ playlists_to_like \in StagedPlaylistIds
    /\ tracks_to_like \in {Uris(n) : n \in {0, ChunkSize, ChunkSize + 1, MaxStaged}}
    /\ playlist_items \in StagedPlaylistItems
    /\ log_albums = <<>>
    /\ log_playlists_others = <<>>
    /\ log_tracks = <<>>
    /\ liked_tracks_uri = {}
    /\ liked_albums_uri = {}
    /\ THRESHOLD_MS = [is_set |-> FALSE, value |-> 0]
    /\ pc = "like_albums"
    /\ n_rows = 0
    /\ video = NoVideo
    /\ response = NoResponse
    /\ result = NotCalled
    /\ searches = <<>>
    /\ sent = <<>>

NextFlush ==
    \/ LikeAlbums
    \/ LikePlaylists
    \/ LikeTracks
    \/ PopulateUserPlaylists

SpecFlush == InitFlush /\ [][NextFlush]_vars

----------------------------------------------------------------------------
(* SpecRecord: one call of prepare_spotify from the run state main starts   *)
(* with, on a row and a Spotify client that stay visible: video is the row, *)
(* response the answers of the client.                                      *)

InitRecord ==
    /\ distinct_albums = <<>>
    /\ distinct_playlists_others = <<>>
    /\ distinct_tracks = <<>>
    /\ albums_to_like = <<>>
    /\ playlists_to_like = <<>>
    /\ tracks_to_like = <<>>
    /\ playlist_items = <<>>
    /\ log_albums = <<>>
    /\ log_playlists_others = <<>>
    /\ log_tracks = <<>>
    /\ liked_tracks_uri \in SUBSET {"t1"}
    /\ liked_albums_uri \in SUBSET {"a1"}
    /\ THRESHOLD_MS \in {[is_set |-> FALSE, value |-> 0], [is_set |-> TRUE, value |-> ThresholdValue]}
    /\ pc = "resolve"
    /\ n_rows = 0
    /\ video \in MainRows(1)
    /\ response \in Catalogues
    /\ result = NotCalled
    /\ searches = <<>>
    /\ sent = <<>>

\* prepare_spotify (lines 555-594) on the row, with the client
PrepareSpotifyOnce ==
    /\ pc = "resolve"
    /\ n_rows = 0
    /\ n_rows' = 1
    /\ UNCHANGED <<envVars, response, sent>>
    /\ Resolve(video, response)

NextRecord == PrepareSpotifyOnce

SpecRecord == InitRecord /\ [][NextRecord]_vars

\* the call is made and returns: prepare_spotify has no loop but the for loops
\* over the three strategies and over the items of an answer
SpecRecordLive == SpecRecord /\ WF_vars(PrepareSpotifyOnce)

----------------------------------------------------------------------------
(* SpecEtl: one call of search_track of the original pipeline              *)
(* (src/dags/spotify_etl.py, lines 130-185) on a video row and a search    *)
(* answer.  spotify_log is log_tracks, spotify_tracks is distinct_tracks,  *)
(* the calls on sp go to sent.                                             *)

\* lines 134-146: the condition of the if
etl_track_accepted(row, track) ==
    \/ Abs(track.duration_ms - row.duration_ms) <= 5000
    \/ /\ IsSubstring(Lower(track.name), Lower(row.title))
       /\ \E k \in 1..Len(track.artists) : IsSubstring(Lower(track.artists[k]), Lower(row.title))

\* what the body of the loop does with the item of rank track_num (lines 133-185)
etl_candidate(row, items, track_num, spotify_playlist_id, spotify_log) ==
    IF etl_track_accepted(row, items[track_num + 1])
    THEN [returned |-> "True", track_num |-> track_num,
          \* line 150: (uri, playlist id) is a key of spotify_log
          status |-> IF \E i \in 1..Len(spotify_log) :
                            /\ spotify_log[i].uri = items[track_num + 1].uri
                            /\ spotify_log[i].spotify_playlist_id = spotify_playlist_id
                     THEN "skipped" ELSE "saved"]
    ELSE [returned |-> "False", track_num |-> track_num, status |-> "none"]

\* search_track going on to the second item when the first is rejected
etl_search_track_NextCandidate(row, items, spotify_playlist_id, spotify_log) ==
    IF items = <<>> THEN [returned |-> "None", track_num |-> 0, status |-> "none"]
    ELSE IF etl_track_accepted(row, items[1]) \/ Len(items) = 1
    THEN etl_candidate(row, items, 0, spotify_playlist_id, spotify_log)
    ELSE etl_candidate(row, items, 1, spotify_playlist_id, spotify_log)

\* search_track (lines 130-185): both branches of the if in the loop return, so
\* only the first item is looked at; with no item the function returns None
etl_search_track(row, items, spotify_playlist_id, spotify_log) ==
    IF items = <<>> THEN [returned |-> "None", track_num |-> 0, status |-> "none"]
    ELSE etl_candidate(row, items, 0, spotify_playlist_id, spotify_log)

\* the tuple appended to spotify_log (lines 169-179), with the q and the
\* search_type_id save_track passes down on line 113
EtlLogEntry(row, track, spotify_playlist_id, outcome) ==
    [uri |-> track.uri,
     spotify_playlist_id |-> spotify_playlist_id,
     video_id |-> row.video_id,
     track_num |-> outcome.track_num,
     difference_ms |-> Abs(track.duration_ms - row.duration_ms),
     q |-> <<"S">>,
     search_type_id |-> "1",
     status |-> outcome.status]

InitEtl ==
    /\ distinct_albums = <<>>
    /\ distinct_playlists_others = <<>>
    /\ distinct_tracks = <<>>
    /\ albums_to_like = <<>>
    /\ playlists_to_like = <<>>
    /\ tracks_to_like = <<>>
    /\ playlist_items = <<>>
    /\ log_albums = <<>>
    /\ log_playlists_others = <<>>
    \* spotify_log before the call: empty, or the first item already liked
    /\ log_tracks \in
          { <<>>,
            << [uri |-> "t1", spotify_playlist_id |-> NoneVal, video_id |-> "v0",
                track_num |-> 0, difference_ms |-> 0, q |-> <<"S">>,
                search_type_id |-> "1", status |-> "saved"] >> }
    /\ liked_tracks_uri = {}
    /\ liked_albums_uri = {}
    /\ THRESHOLD_MS = [is_set |-> FALSE, value |-> 0]
    /\ pc = "search_track"
    /\ n_rows = 0
    \* the rows of the original pipeline: title, duration_ms, video_id
    /\ video \in [title : {<<"a", "-", "S">>, <<"S">>, <<"x">>},
                  duration_ms : {180000},
                  video_id : {"v1"}]
    /\ response \in TrackResponses
    /\ result = NotCalled
    /\ searches = <<>>
    /\ sent = <<>>

\* search_track(row, spotify_playlist_id, q, search_type_id, limit=2)
EtlSearchTrack ==
    /\ pc = "search_track" /\ result.tag = "not called"
    /\ \E spotify_playlist_id \in {NoneVal, "u1"} :
        \E r \in {etl_search_track(video, response.items, spotify_playlist_id, log_tracks)} :
            /\ result' = [tag |-> "returned", value |-> r.returned,
                          spotify_playlist_id |-> spotify_playlist_id]
            /\ IF r.returned = "True"
               THEN LET track == response.items[r.track_num + 1]
                    IN  /\ sent' =
                              IF r.status # "saved" THEN sent
                              ELSE IF spotify_playlist_id # NoneVal
                              THEN Append(sent, [call |-> "playlist_add_items",
                                                 playlist_id |-> spotify_playlist_id,
                                                 uris |-> <<track.uri>>, raised |-> FALSE])
                              ELSE Append(sent, [call |-> "current_user_saved_tracks_add",
                                                 uris |-> <<track.uri>>, raised |-> FALSE])
                        /\ distinct_tracks' =
                              DictSet(distinct_tracks, track.uri,
                                      [album_uri |-> track.album_uri,
                                       track_title |-> track.name,
                                       track_artists |-> Join(track.artists),
                                       duration_ms |-> track.duration_ms])
                        /\ log_tracks' = Append(log_tracks,
                              EtlLogEntry(video, track, spotify_playlist_id, r))
               ELSE UNCHANGED <<sent, distinct_tracks, log_tracks>>
    /\ UNCHANGED <<distinct_albums, distinct_playlists_others, stagingVars, log_albums,
                   log_playlists_others, envVars, pc, n_rows, video, response, searches>>

NextEtl == EtlSearchTrack

SpecEtl == InitEtl /\ [][NextEtl]_vars

----------------------------------------------------------------------------
(* Properties of the run state, checked under Spec *)

\* the statuses a ledger holds for the key (uri, dest), in the order of the run
StatusesOf(log, uri, dest) ==
    LET hits == SelectSeq(log, LAMBDA e : e.uri = uri /\ e.user_playlist_id = dest)
    IN  [i \in 1..Len(hits) |-> hits[i].status]

\* the keys a ledger holds
KeysOf(log) == {<<log[i].uri, log[i].user_playlist_id>> : i \in 1..Len(log)}

SavedThenSkipped(log, snapshot) ==
    \A k \in KeysOf(log) :
        k[1] \notin snapshot =>
            /\ StatusesOf(log, k[1], k[2])[1] = Saved
            /\ Len(StatusesOf(log, k[1], k[2])) >= 2 =>
                    StatusesOf(log, k[1], k[2])[2] = SkippedDuring

\* C1: from an empty run state, the first two ledger entries of a key
\* (entity_uri, destination) whose entity is not in the pre-run liked snapshot carry
\* "saved" then "skipped (saved during the run)", for tracks, albums and playlists.
C1_SavedThenSkippedDuring ==
    /\ SavedThenSkipped(log_tracks, liked_tracks_uri)
    /\ SavedThenSkipped(log_albums, liked_albums_uri)
    /\ SavedThenSkipped(log_playlists_others, {})

\* C1 witness: a track outside the snapshot was matched twice for one destination.
C1_Witness ==
    \E k \in KeysOf(log_tracks) :
        /\ k[1] \notin liked_tracks_uri
        /\ Len(StatusesOf(log_tracks, k[1], k[2])) >= 2

\* the entry a step appended to a ledger, if it appended one
Appended(log, logNext) == Len(logNext) = Len(log) + 1

LikeListsUnchanged ==
    UNCHANGED <<albums_to_like, playlists_to_like, tracks_to_like>>

SnapshotRule(log, logNext, snapshot) ==
    Appended(log, logNext) =>
        LET e == logNext[Len(logNext)]
        IN  /\ ( /\ e.user_playlist_id = "0"
                 /\ e.uri \in snapshot
                 /\ <<e.uri, "0">> \notin KeysOf(log) )
                => (e.status = SkippedBefore /\ LikeListsUnchanged)
            /\ e.user_playlist_id # "0" => e.status # SkippedBefore

\* C2: a track or album of the pre-run liked snapshot, collected for the sentinel
\* "0" with no ledger entry of that key yet, gets "skipped (saved before the run)"
\* and reaches no like-staging list; for a concrete playlist id the status is never
\* "skipped (saved before the run)".
C2_SkippedBeforeOnlyForSentinel ==
    [][ /\ SnapshotRule(log_tracks, log_tracks', liked_tracks_uri)
        /\ SnapshotRule(log_albums, log_albums', liked_albums_uri) ]_vars

\* C2 witness: a liked track and a liked album were each skipped for "0", and a
\* liked track went to a user playlist.
C2_Witness ==
    /\ \E i \in 1..Len(log_tracks) : log_tracks[i].status = SkippedBefore
    /\ \E i \in 1..Len(log_albums) : log_albums[i].status = SkippedBefore
    /\ \E i \in 1..Len(log_tracks) :
          /\ log_tracks[i].uri \in liked_tracks_uri
          /\ log_tracks[i].user_playlist_id # "0"

\* C3: no staging list playlist_items[id] holds a track URI twice.
C3_PlaylistItemsNoDuplicates ==
    \A id \in DOMAIN playlist_items : NoDuplicates(playlist_items[id])

\* C3 witness: two albums that share a track, one of them listing a track twice,
\* were both saved to the same user playlist.
C3_Witness ==
    \E i, j \in 1..Len(log_albums) :
        /\ log_albums[i].uri = "a1" /\ log_albums[j].uri = "a2"
        /\ log_albums[i].status = Saved /\ log_albums[j].status = Saved
        /\ log_albums[i].user_playlist_id = log_albums[j].user_playlist_id
        /\ log_albums[i].user_playlist_id # "0"
        /\ Len(playlist_items[log_albums[i].user_playlist_id]) = 3

ElementsOf(list) == {list[i] : i \in 1..Len(list)}

\* C4: no like-staging list holds an element twice, and albums_to_like and
\* tracks_to_like hold nothing of the pre-run snapshots.
C4_LikeListsDistinctAndNew ==
    /\ NoDuplicates(albums_to_like)
    /\ NoDuplicates(playlists_to_like)
    /\ NoDuplicates(tracks_to_like)
    /\ ElementsOf(albums_to_like) \cap liked_albums_uri = {}
    /\ ElementsOf(tracks_to_like) \cap liked_tracks_uri = {}

\* C4 witness: for the liked library, a track was matched twice and a track of the
\* snapshot was matched.
C4_Witness ==
    /\ tracks_to_like # <<>>
    /\ \E i \in 1..Len(log_tracks) :
          log_tracks[i].user_playlist_id = "0" /\ log_tracks[i].status = SkippedDuring
    /\ \E i \in 1..Len(log_tracks) :
          log_tracks[i].user_playlist_id = "0" /\ log_tracks[i].status = SkippedBefore

\* C5: once the playlist reference of a distinct_tracks entry is non-null, no
\* later step makes it null again.
C5_PlaylistRefNeverCleared ==
    [][ \A t \in DOMAIN distinct_tracks :
            distinct_tracks[t].playlist_uri # NoneVal =>
                /\ t \in DOMAIN distinct_tracks'
                /\ distinct_tracks'[t].playlist_uri # NoneVal ]_vars

\* C5 witness: a track that a matched playlist holds was logged by a later
\* log_track, and another by a later log_album.
C5_Witness ==
    \E i \in 1..Len(log_playlists_others) :
        /\ \E j \in 1..Len(log_tracks) :
              /\ log_tracks[j].log_id > log_playlists_others[i].log_id
              /\ InList(log_tracks[j].uri, CatalogPlaylist(log_playlists_others[i].uri).tracks)
        /\ \E j \in 1..Len(log_albums) :
              /\ log_albums[j].log_id > log_playlists_others[i].log_id
              /\ \E t \in ElementsOf(CatalogAlbum(log_albums[j].uri).tracks) :
                    InList(t, CatalogPlaylist(log_playlists_others[i].uri).tracks)

\* C6: once the playlist reference of a distinct_tracks entry is a playlist URI P,
\* it is P after every later registry write (first non-null write wins).
C6_FirstNonNullWins ==
    [][ \A t \in DOMAIN distinct_tracks :
            distinct_tracks[t].playlist_uri # NoneVal =>
                /\ t \in DOMAIN distinct_tracks'
                /\ distinct_tracks'[t].playlist_uri = distinct_tracks[t].playlist_uri ]_vars


----------------------------------------------------------------------------
(* Properties of the scorers, checked under SpecScore *)

Scored(type) == response.type = type /\ result.tag # "not called"

\* the track rule as the specification words it
TrackRule(row, track) ==
    \/ Abs(track.duration_ms - row.duration_ms) <= 5000
    \/ /\ IsSubstring(Lower(track.name), Lower(row.youtube_title))
       /\ \E k \in 1..Len(track.artists) :
             IsSubstring(Lower(track.artists[k]), Lower(row.youtube_title))

\* C7: qsearch_track accepts a candidate if and only if its duration is within
\* 5000 ms of the record's, or its title and one of its artists are
\* case-insensitive substrings of the record's title: the call returns the first
\* candidate the rule accepts, and nothing when the rule accepts none.
C7_TrackRule ==
    Scored("track") =>
        LET accepted == {i \in 1..Len(response.items) : TrackRule(video, response.items[i])}
        IN  IF accepted = {} THEN result.tag = "None"
            ELSE /\ IsMatch(result)
                 /\ result.found_on_try + 1 \in accepted
                 /\ \A i \in accepted : i >= result.found_on_try + 1

NoOverlap(row, track) ==
    /\ ~IsSubstring(Lower(track.name), Lower(row.youtube_title))
    /\ \A k \in 1..Len(track.artists) :
          ~IsSubstring(Lower(track.artists[k]), Lower(row.youtube_title))

\* C7 witness: the first candidate is 5001 ms off with no title or artist overlap
\* and is passed over, the second is exactly 5000 ms off with no overlap and is
\* returned.
C7_Witness ==
    /\ Scored("track")
    /\ Len(response.items) = 2
    /\ Abs(response.items[1].duration_ms - video.duration_ms) = 5001
    /\ Abs(response.items[2].duration_ms - video.duration_ms) = 5000
    /\ NoOverlap(video, response.items[1])
    /\ NoOverlap(video, response.items[2])
    /\ IsMatch(result)
    /\ result.found_on_try = 1

TitlesInDesc(row, tracks) ==
    Cardinality({i \in 1..Len(tracks) : IsSubstring(Lower(tracks[i].name), row.description)})

DurationSum(tracks) == SumSeq([i \in 1..Len(tracks) |-> tracks[i].duration_ms])

\* the album rule as the specification words it
AlbumRule(row, tracks) ==
    \/ Abs(row.duration_ms - DurationSum(tracks)) < 40000
    \/ /\ Len(tracks) >= 4
       /\ TitlesInDesc(row, tracks) * 100 >= 60 * Len(tracks)

\* C8: qsearch_album accepts a candidate with at least one track if and only if
\* the record's duration is less than 40000 ms off the sum of the track durations,
\* or the album has 4 tracks or more and 60 percent or more of their titles are in
\* the description.
C8_AlbumRule ==
    ( /\ Scored("album")
      /\ Len(response.items) = 1
      /\ Len(response.items[1].tracks) >= 1 )
    => (IsMatch(result) <=> AlbumRule(video, response.items[1].tracks))

\* C8 witness: 5 tracks, 3 of them in the description, the durations 40000 ms or
\* more apart: accepted at the 60 percent boundary.
C8_Witness ==
    /\ Scored("album")
    /\ Len(response.items) = 1
    /\ Len(response.items[1].tracks) = 5
    /\ TitlesInDesc(video, response.items[1].tracks) = 3
    /\ Abs(video.duration_ms - DurationSum(response.items[1].tracks)) >= 40000
    /\ IsMatch(result)
    /\ result.total_tracks = 5 /\ result.tracks_in_desc = 3

\* C9: an album with zero tracks, or a playlist with zero available tracks, is a
\* rejected candidate: the scorer raises nothing.
C9_ZeroTracksRejected ==
    (Scored("album") \/ Scored("playlist")) => result.tag # "raise"

\* the playlists of an answer without the entries whose track is missing
WithoutMissing(items) ==
    [i \in 1..Len(items) |->
        [items[i] EXCEPT !.tracks = SelectSeq(@, LAMBDA e : e.tag = "track")]]

\* C10: what qsearch_playlist decides and returns is what it decides and returns
\* on the same playlists with the entries of missing tracks removed.
C10_MissingEntriesIgnored ==
    Scored("playlist") =>
        result = qsearch_playlist(video, WithoutMissing(response.items),
                                  ScoreQuery.q, ScoreQuery.search_type_id)

\* C10 witness: a playlist with a missing entry among its entries was accepted.
C10_Witness ==
    /\ Scored("playlist")
    /\ IsMatch(result)
    /\ LET entries == response.items[result.found_on_try + 1].tracks
       IN  /\ \E i \in 1..Len(entries) : entries[i] = MissingTrack
           /\ result.total_tracks < Len(entries)
           /\ result.total_tracks >= 2

----------------------------------------------------------------------------
(* Properties of the title normalizer, checked under SpecTitle *)

\* C20: fix_youtube_title is idempotent: applied to its own result for a
\* title over the three bracket pairs, a letter and a space, it returns that
\* result unchanged.
C20_FixTitleIdempotent ==
    result.tag = "value" => fix_youtube_title(result.value) = result.value

\* C20 witness: a title lost a bracketed span and its result still holds brackets.
C20_Witness ==
    /\ result.tag = "value"
    /\ result.value # video.youtube_title
    /\ \E i, j \in 1..Len(result.value) :
          i < j /\ IsOpener(result.value[j]) /\ result.value[i] = CloserOf(result.value[j])

\* the spans of s from an opening bracket to the next closing bracket of its kind
ShortestSpans(s) ==
    {sp \in (1..Len(s)) \X (1..Len(s)) :
        /\ sp[1] < sp[2]
        /\ IsOpener(s[sp[1]])
        /\ s[sp[2]] = CloserOf(s[sp[1]])
        /\ \A k \in (sp[1] + 1)..(sp[2] - 1) : s[k] # CloserOf(s[sp[1]])}

\* no two spans of P overlap
Disjoint(P) == \A a, b \in P : a = b \/ a[2] < b[1] \/ b[2] < a[1]

\* s from position i on without the characters of the spans of P
RECURSIVE WithoutFrom(_, _, _)
WithoutFrom(s, P, i) ==
    IF i > Len(s) THEN <<>>
    ELSE IF \E sp \in P : sp[1] <= i /\ i <= sp[2]
    THEN WithoutFrom(s, P, i + 1)
    ELSE <<s[i]>> \o WithoutFrom(s, P, i + 1)

\* t holds an opening bracket with a closing bracket of its kind after it
HasSpan(t) ==
    \E i, j \in 1..Len(t) : i < j /\ IsOpener(t[i]) /\ t[j] = CloserOf(t[i])

\* C21: fix_youtube_title returns the (single-line) title without some
\* non-overlapping spans that each go from an opening (, [ or full-width bracket
\* to the next closing bracket of its kind, delimiters included; every other
\* character, spaces too, is kept in its order, and no bracketed span is left in
\* the result. "Album Name (2021) [Full Album]" gives "Album Name" and two spaces.
C21_BracketSpansRemoved ==
    result.tag = "value" =>
        /\ ~HasSpan(result.value)
        /\ \E P \in SUBSET ShortestSpans(video.youtube_title) :
              /\ Disjoint(P)
              /\ result.value = WithoutFrom(video.youtube_title, P, 1)
        /\ video.youtube_title = AlbumTitle => result.value = <<"A", "l", "b", "u", "m", " ", "N", "a", "m", "e", " ", " ">>

\* C21 witness: the title "Album Name (2021) [Full Album]" has been normalized
C21_Witness ==
    /\ result.tag = "value"
    /\ video.youtube_title = AlbumTitle
    /\ Len(result.value) = 12

----------------------------------------------------------------------------
(* Properties of the cascades, the resolver and the flush, checked under   *)
(* SpecMain *)

\* a record has been handed to prepare_spotify
Resolved == result.tag = "resolved"

\* what the cascade of an entity kind returned for the last record
InfoOf(type) ==
    CASE type = "track"    -> result.track_info
      [] type = "album"    -> result.album_info
      [] type = "playlist" -> result.playlist_info

\* the search calls of an entity kind among the calls of the last record
SearchesOf(type) == SelectSeq(searches, LAMBDA c : c.type = type)

\* the search_type_id of the strategies of a cascade, in their order
StrategyOrder(type, row) ==
    CASE type = "track"    -> IF IsSubstring(topic_marker, row.youtube_channel)
                              THEN <<0, 2, 3>> ELSE <<1, 2, 3>>
      [] type = "album"    -> <<0, 1, 2>>
      [] type = "playlist" -> <<1, 2, 3>>

\* the rule of C11 for the cascade of one entity kind
CascadeRule(type) ==
    LET calls == SearchesOf(type)
        order == StrategyOrder(type, video)
    IN  /\ Len(calls) \in 1..Len(order)
        /\ \A i \in 1..Len(calls) : calls[i].search_type_id = order[i]
        /\ \A i \in 1..(Len(calls) - 1) : calls[i].outcome = "None"
        /\ calls[Len(calls)].outcome = InfoOf(type).tag
        /\ InfoOf(type).tag = "None" => Len(calls) = Len(order)

\* C11: a cascade that ran for a record made one search call for each strategy it
\* tried, the strategies in their fixed order, none after a strategy accepted a
\* candidate, and it returned "not found" only after all its strategies did.
C11_OneSearchPerStrategy ==
    Resolved =>
        \A type \in {"track", "album", "playlist"} :
            InfoOf(type).tag # "not called" => CascadeRule(type)

\* the cascade of an entity kind ran for the last record
Ran(type) == InfoOf(type).tag # "not called"

\* the destination playlist of the last record was found in df_playlists
DestinationFound == result.user_playlist_id.tag = "value"

\* C12: for a record whose destination was determined, prepare_spotify branches
\* only on the duration against the threshold: with a threshold configured and
\* duration_ms >= threshold it runs the album cascade, the playlist cascade if and
\* only if no album matched, and never the track cascade; otherwise it runs the
\* track cascade only. The search calls it made are those of the cascades it ran.
C12_BranchOnDurationOnly ==
    (Resolved /\ DestinationFound) =>
        /\ IF THRESHOLD_MS.is_set /\ video.duration_ms >= THRESHOLD_MS.value
           THEN /\ Ran("album")
                /\ ~Ran("track")
                /\ Ran("playlist") <=> result.album_info.tag = "None"
           ELSE /\ Ran("track")
                /\ ~Ran("album")
                /\ ~Ran("playlist")
        /\ \A i \in 1..Len(searches) : Ran(searches[i].type)

\* C12 witness: a record whose duration equals the configured threshold, for which
\* no album matched and the playlist cascade accepted a playlist
C12_Witness ==
    /\ Resolved /\ DestinationFound
    /\ THRESHOLD_MS.is_set /\ video.duration_ms = THRESHOLD_MS.value
    /\ result.album_info.tag = "None"
    /\ IsMatch(result.playlist_info)
    /\ ~Ran("track")

\* the rows of df_playlists whose youtube_playlist_id is that of the record
MappingRows(row) ==
    SelectSeq(df_playlists, LAMBDA p : p.youtube_playlist_id = row.youtube_playlist_id)

\* C13: a record whose youtube_playlist_id has no row in df_playlists is skipped:
\* no search is made for it, the registries, the staging lists and the ledgers
\* stay as they are and the resolve loop goes on; with several rows the
\* destination is the spotify_playlist_id of the first one.
C13_NoMappingRowSkipsRecord ==
    [][n_rows' = n_rows + 1 =>
          IF MappingRows(video') = <<>>
          THEN /\ pc' = "resolve"
               /\ searches' = <<>>
               /\ UNCHANGED <<registryVars, stagingVars, ledgerVars>>
          ELSE result'.user_playlist_id = [tag |-> "value",
                   value |-> MappingRows(video')[1].spotify_playlist_id]]_vars

\* every cascade prepare_spotify ran for a record returned None
Exhausted(r) ==
    /\ r.tag = "resolved"
    /\ r.user_playlist_id.tag = "value"
    /\ \/ r.track_info.tag = "None"
       \/ r.album_info.tag = "None" /\ r.playlist_info.tag = "None"

\* C14: a record for which every cascade that ran ended without an accepted
\* candidate leaves the three ledgers, the three registries, the three like
\* lists and playlist_items unchanged, and the resolve loop goes on.
C14_NotFoundChangesNothing ==
    [][(n_rows' = n_rows + 1 /\ Exhausted(result')) =>
          /\ UNCHANGED <<registryVars, stagingVars, ledgerVars>>
          /\ pc' = "resolve"]_vars

\* C14 witness: the first record found nothing in either cascade run for it and
\* the second record has then been resolved and logged
C14_Witness ==
    /\ n_rows = 2
    /\ Len(log_albums) + Len(log_playlists_others) + Len(log_tracks) = 1
    /\ \A i \in 1..Len(log_tracks) : log_tracks[i].log_id = 2
    /\ \A i \in 1..Len(log_albums) : log_albums[i].log_id = 2
    /\ \A i \in 1..Len(log_playlists_others) : log_playlists_others[i].log_id = 2

\* logNext is log with one entry appended, written for the record row, the
\* entity uri and the destination of the last prepare_spotify call
OneEntryAppended(log, logNext, row, uri, user_playlist_id) ==
    /\ Len(logNext) = Len(log) + 1
    /\ SubSeq(logNext, 1, Len(log)) = log
    /\ logNext[Len(logNext)].log_id = row.log_id
    /\ logNext[Len(logNext)].uri = uri
    /\ logNext[Len(logNext)].user_playlist_id = user_playlist_id
    /\ logNext[Len(logNext)].status \in {Saved, SkippedDuring, SkippedBefore}

CallsWithUri(call, uri) ==
    Cardinality({k \in 1..Len(sent) : sent[k].call = call /\ InList(uri, sent[k].uris)})

\* the number of follow calls made for a playlist id
FollowCalls(playlist_id) ==
    Cardinality({k \in 1..Len(sent) :
        sent[k].call = "current_user_follow_playlist" /\ sent[k].playlist_id = playlist_id})

\* the number of playlist-append calls to a user playlist that carry a uri
AppendCalls(user_playlist_id, uri) ==
    Cardinality({k \in 1..Len(sent) :
        /\ sent[k].call = "playlist_add_items"
        /\ sent[k].playlist_id = user_playlist_id
        /\ InList(uri, sent[k].uris)})

\* every staged uri or id has gone out in exactly one call of its kind
EachStagedSentOnce ==
    /\ \A i \in 1..Len(albums_to_like) :
          CallsWithUri("current_user_saved_albums_add", albums_to_like[i]) = 1
    /\ \A i \in 1..Len(playlists_to_like) : FollowCalls(playlists_to_like[i]) = 1
    /\ \A i \in 1..Len(tracks_to_like) :
          CallsWithUri("current_user_saved_tracks_add", tracks_to_like[i]) = 1
    /\ \A id \in DOMAIN playlist_items :
          \A i \in 1..Len(playlist_items[id]) : AppendCalls(id, playlist_items[id][i]) = 1

\* C16: main issues no like-album, follow-playlist, like-track or playlist-append
\* call while records are being resolved, resolves no record and stages nothing
\* once such a call has gone out, and when the flush has ended without a failure
\* every staged uri or id has been sent in exactly one call.
C16_FlushOnceAfterResolve ==
    [][ /\ sent' # sent => (pc # "resolve" /\ UNCHANGED <<n_rows, stagingVars, ledgerVars>>)
        /\ sent # <<>> => UNCHANGED <<n_rows, stagingVars, ledgerVars>>
        /\ pc' = "done" => EachStagedSentOnce' ]_vars

\* C16 witness: the flush has ended after two records were resolved, with a
\* playlist followed and tracks appended to a user playlist
C16_Witness ==
    /\ pc = "done"
    /\ n_rows = 2
    /\ playlists_to_like # <<>>
    /\ \E id \in DOMAIN playlist_items : playlist_items[id] # <<>>
    /\ Len(sent) >= 2
    /\ EachStagedSentOnce

\* a call of prepare_spotify ended with an exception
ResolveRaised ==
    /\ Resolved
    /\ \/ result.user_playlist_id.tag = "raise"
       \/ \E type \in {"track", "album", "playlist"} : InfoOf(type).tag = "raise"

\* C17: nothing retries or swallows a failure. When prepare_spotify raises (a
\* search or detail call failed) the run has ended and no like, follow or
\* playlist-append call has been made; a flush call that raised is the last call
\* made (it is not issued again and no later batch follows it) and the run has
\* ended with it; once the run has ended this way nothing more happens.
C17_FailureAbortsRun ==
    /\ [](ResolveRaised => (pc = "crashed" /\ sent = <<>>))
    /\ [](\A k \in 1..Len(sent) : sent[k].raised => (k = Len(sent) /\ pc = "crashed"))
    /\ [][pc = "crashed" => FALSE]_vars

\* C17 witness: tracks were staged for two user playlists and the first
\* playlist-append call raised: it is the only call made and the run has ended
C17_Witness ==
    /\ pc = "crashed"
    /\ Cardinality({id \in DOMAIN playlist_items : playlist_items[id] # <<>>}) = 2
    /\ Len(sent) = 1
    /\ sent[1].call = "playlist_add_items"
    /\ sent[1].raised

----------------------------------------------------------------------------
(* Properties of one prepare_spotify call, checked under SpecRecord *)

\* the record of C19: "Artist - Song" on the channel "Artist - Topic", 180000 ms,
\* from the playlist whose destination is the sentinel "0"
IsTopicSongRecord(row) ==
    /\ row.youtube_title = <<"A", "r", "t", "i", "s", "t", " ", "-", " ", "S", "o", "n", "g">>
    /\ row.youtube_channel = <<"A", "r", "t", "i", "s", "t", " ", "-", " ", "T", "o", "p", "i", "c">>
    /\ row.duration_ms = 180000
    /\ row.youtube_playlist_id = "0"

\* a track "Song" by "Artist" of 182000 ms is the first item the client returns
\* for the search of the topic-channel strategy
SongReturnedFirst(sp) ==
    /\ sp.track[1].tag = "items"
    /\ sp.track[1].items # <<>>
    /\ sp.track[1].items[1].name = <<"S", "o", "n", "g">>
    /\ sp.track[1].items[1].artists = << <<"A", "r", "t", "i", "s", "t">> >>
    /\ sp.track[1].items[1].duration_ms = 182000

\* the case of C19: the run state was empty, the record is below the threshold
\* (or none is configured) and the track is not in the liked snapshot
TopicSongCase ==
    /\ n_rows = 1
    /\ IsTopicSongRecord(video)
    /\ SongReturnedFirst(response)
    /\ response.track[1].items[1].uri \notin liked_tracks_uri
    /\ THRESHOLD_MS.is_set => video.duration_ms < THRESHOLD_MS.value

\* C19: from an empty run state, the record "Artist - Song" of the channel
\* "Artist - Topic" (180000 ms, below the threshold, destination "0"), with the
\* track "Song" by "Artist" (182000 ms) returned first by the topic-channel search
\* and not in the liked snapshot, leaves the uri of the track appended to
\* tracks_to_like and one ledger entry with found_on_try 0, search_type_id 0 and
\* the status saved.
C19_TopicTrackEndToEnd ==
    TopicSongCase =>
        /\ tracks_to_like = << response.track[1].items[1].uri >>
        /\ Len(log_tracks) = 1
        /\ log_tracks[1].log_id = video.log_id
        /\ log_tracks[1].uri = response.track[1].items[1].uri
        /\ log_tracks[1].user_playlist_id = "0"
        /\ log_tracks[1].found_on_try = 0
        /\ log_tracks[1].search_type_id = 0
        /\ log_tracks[1].status = Saved
        /\ log_albums = <<>> /\ log_playlists_others = <<>>
        /\ albums_to_like = <<>> /\ playlists_to_like = <<>> /\ playlist_items = <<>>

\* C19 witness: the case of C19 after prepare_spotify, with a threshold configured
\* and one search call made, that of the topic-channel strategy
C19_Witness ==
    /\ TopicSongCase
    /\ THRESHOLD_MS.is_set
    /\ Len(searches) = 1
    /\ searches[1].q = <<"t", "r", "a", "c", "k", ":", "A", "r", "t", "i", "s", "t", " ", "-", " ", "S", "o", "n", "g", " ", "a", "r", "t", "i", "s", "t", ":", "A", "r", "t", "i", "s", "t">>
    /\ log_tracks # <<>>
    /\ log_tracks[1].status = Saved

----------------------------------------------------------------------------
(* Properties of the flush, checked under SpecFlush *)

\* the concatenation of a sequence of lists
RECURSIVE Flatten(_)
Flatten(lists) ==
    IF lists = <<>> THEN <<>> ELSE Head(lists) \o Flatten(Tail(lists))

\* list a is the beginning of list b
IsPrefix(a, b) == Len(a) <= Len(b) /\ SubSeq(b, 1, Len(a)) = a

\* the uris sent so far by the like-albums or like-tracks calls (call), in order
UrisSent(call) ==
    LET calls == SelectSeq(sent, LAMBDA c : c.call = call)
    IN  Flatten([i \in 1..Len(calls) |-> calls[i].uris])

\* the playlist ids of the follow calls made so far, in order
IdsFollowed ==
    LET calls == SelectSeq(sent, LAMBDA c : c.call = "current_user_follow_playlist")
    IN  [i \in 1..Len(calls) |-> calls[i].playlist_id]

\* the uris appended so far to a user playlist, in order
UrisAppended(user_playlist_id) ==
    LET calls == SelectSeq(sent, LAMBDA c : c.call = "playlist_add_items"
                                            /\ c.playlist_id = user_playlist_id)
    IN  Flatten([i \in 1..Len(calls) |-> calls[i].uris])

\* C18: in the flush every like-albums and every like-tracks call carries at
\* most 50 uris, every follow call carries one playlist id of the staged list,
\* every playlist-append call carries at most 50 uris for one user playlist of
\* playlist_items, and the chunks sent, put together in the order of the calls,
\* are the beginning of the staged list and the whole of it when the flush ends.
C18_ChunksOfFifty ==
    /\ \A k \in 1..Len(sent) :
          /\ sent[k].call \in {"current_user_saved_albums_add", "current_user_saved_tracks_add"}
                => Len(sent[k].uris) \in 1..50
          /\ sent[k].call = "playlist_add_items"
                => (Len(sent[k].uris) \in 1..50 /\ sent[k].playlist_id \in DOMAIN playlist_items)
    /\ IsPrefix(UrisSent("current_user_saved_albums_add"), albums_to_like)
    /\ IsPrefix(IdsFollowed, playlists_to_like)
    /\ IsPrefix(UrisSent("current_user_saved_tracks_add"), tracks_to_like)
    /\ \A id \in DOMAIN playlist_items : IsPrefix(UrisAppended(id), playlist_items[id])
    /\ pc = "done" =>
          /\ UrisSent("current_user_saved_albums_add") = albums_to_like
          /\ IdsFollowed = playlists_to_like
          /\ UrisSent("current_user_saved_tracks_add") = tracks_to_like
          /\ \A id \in DOMAIN playlist_items : UrisAppended(id) = playlist_items[id]

\* C18 witness: the flush has ended for lists of more than two chunks: three
\* like-albums calls, three follow calls and three calls for one user playlist
C18_Witness ==
    /\ pc = "done"
    /\ Len(albums_to_like) > 100
    /\ Len(SelectSeq(sent, LAMBDA c : c.call = "current_user_saved_albums_add")) = 3
    /\ Len(IdsFollowed) = 3
    /\ \E id \in DOMAIN playlist_items :
          /\ Len(playlist_items[id]) > 100
          /\ Len(SelectSeq(sent, LAMBDA c : c.call = "playlist_add_items" /\ c.playlist_id = id)) = 3

\* the uri of the entity a cascade accepted
InfoUri(type) ==
    CASE type = "track"    -> result.track_info.track_uri
      [] type = "album"    -> result.album_info.album_uri
      [] type = "playlist" -> result.playlist_info.playlist_uri

\* the client's answers to the strategies of a cascade, in their order
AnswersOf(type) ==
    CASE type = "track"    -> response.track
      [] type = "album"    -> response.album
      [] type = "playlist" -> response.playlist

\* the ledger of an entity kind
LedgerOf(type) ==
    CASE type = "track"    -> log_tracks
      [] type = "album"    -> log_albums
      [] type = "playlist" -> log_playlists_others

\* C22 as stated: in every MatchResult and ledger entry, found_on_try is the
\* index (from 0) of the strategy of the cascade that produced the accepted match.
C22_FoundOnTryIsStrategyIndex ==
    Resolved =>
        \A type \in {"track", "album", "playlist"} :
            IsMatch(InfoOf(type)) =>
                /\ InfoOf(type).found_on_try = Len(SearchesOf(type)) - 1
                /\ LedgerOf(type)[1].found_on_try = Len(SearchesOf(type)) - 1

\* C22 amended: in every MatchResult, found_on_try is the rank (from 0) of the
\* accepted candidate among the items the client returned to the search call of
\* the strategy that succeeded, and the ledger entry carries the same value.
C22_FoundOnTryIsCandidateRank ==
    Resolved =>
        \A type \in {"track", "album", "playlist"} :
            IsMatch(InfoOf(type)) =>
                LET answer == AnswersOf(type)[Len(SearchesOf(type))]
                IN  /\ InfoOf(type).found_on_try \in 0..(Len(answer.items) - 1)
                    /\ answer.items[InfoOf(type).found_on_try + 1].uri = InfoUri(type)
                    /\ Len(LedgerOf(type)) = 1
                    /\ LedgerOf(type)[1].found_on_try = InfoOf(type).found_on_try

\* C22 witness: the third strategy of the track cascade accepted the second
\* item of its answer: found_on_try is 1 in the MatchResult and in the ledger
C22_Witness ==
    /\ Resolved
    /\ IsMatch(result.track_info)
    /\ Len(SearchesOf("track")) = 3
    /\ result.track_info.found_on_try = 1
    /\ log_tracks # <<>>
    /\ log_tracks[1].found_on_try = 1

\* create_df_search_types (lines 736-741): search_type_id -> search_type_name
search_types ==
    [id \in 0..3 |->
        CASE id = 0 -> "colons"
          [] id = 1 -> "title only"
          [] id = 2 -> "keyword and quotes"
          [] id = 3 -> "channel name and title"]

\* the title of a record as a query uses it: raw, or normalized
TitleForms(row) == {row.youtube_title, fix_youtube_title(row.youtube_title)}

\* the channel of a record as a query uses it: raw, or without the topic marker
ChannelForms(row) == {row.youtube_channel, re_sub(topic_marker, <<>>, row.youtube_channel)}

\* what kind of query q is for a record, in the words of the table
QueryShape(q, row) ==
    IF q \in TitleForms(row) THEN "title only"
    ELSE IF \E keyword \in {str_track_quote, str_album_quote, str_playlist_quote},
               title \in TitleForms(row) : q = keyword \o title \o str_quote
    THEN "keyword and quotes"
    ELSE IF \E channel \in ChannelForms(row), title \in TitleForms(row) :
               q = channel \o str_space \o title
    THEN "channel name and title"
    ELSE IF SubSeq(q, 1, Len(str_track_colon)) = str_track_colon THEN "colons"
    ELSE "other"

\* C23: the search_type_id of every MatchResult has the meaning of the table
\* {0: colons, 1: title only, 2: keyword and quotes, 3: channel name and title}
\* in the track, album and playlist cascades alike: the query that found the
\* match has the shape the table gives for its search_type_id.
C23_SearchTypeHasTableMeaning ==
    Resolved =>
        \A type \in {"track", "album", "playlist"} :
            IsMatch(InfoOf(type)) =>
                search_types[InfoOf(type).search_type_id] = QueryShape(InfoOf(type).q, video)

\* C24: for a record whose channel does not hold " - Topic", find_track first
\* makes a free-text track search on the raw title (search_type_id 1), then,
\* while nothing is accepted, the search track "<title>" (2), then
\* "<channel> <title>" (3); every call is made and scored, so that the record
\* ends matched or not found unless the client itself failed.
C24_NonTopicTrackCascade ==
    (Resolved /\ DestinationFound /\ Ran("track")
        /\ ~IsSubstring(topic_marker, video.youtube_channel)) =>
        /\ Len(searches) \in 1..3
        /\ \A i \in 1..Len(searches) : searches[i].type = "track" /\ searches[i].limit = 2
        /\ searches[1].q = video.youtube_title
        /\ searches[1].search_type_id = 1
        /\ Len(searches) >= 2 =>
              /\ searches[1].outcome = "None"
              /\ searches[2].q = str_track_quote \o video.youtube_title \o str_quote
              /\ searches[2].search_type_id = 2
        /\ Len(searches) >= 3 =>
              /\ searches[2].outcome = "None"
              /\ searches[3].q = video.youtube_channel \o str_space \o video.youtube_title
              /\ searches[3].search_type_id = 3
        /\ result.track_info.tag \in {"match", "None"} \/ result.track_info = Failure

----------------------------------------------------------------------------
(* Properties of the scorers on two candidates, checked under SpecScore *)

\* the entries of a playlist that still hold a track
AvailableTracks(entries) == SelectSeq(entries, LAMBDA e : e.tag = "track")

\* the playlist rule as the specification words it: the album rule over the
\* available tracks, a playlist with none of them being rejected
PlaylistRule(row, entries) ==
    /\ AvailableTracks(entries) # <<>>
    /\ AlbumRule(row, AvailableTracks(entries))

\* the answer holds two candidates, the first rejected by the rule of its kind and
\* the second accepted by it
SecondCandidateCase(type) ==
    /\ Scored(type)
    /\ Len(response.items) = 2
    /\ IF type = "track"
       THEN ~TrackRule(video, response.items[1]) /\ TrackRule(video, response.items[2])
       ELSE /\ ~PlaylistRule(video, response.items[1].tracks)
            /\ PlaylistRule(video, response.items[2].tracks)

\* C26: when the first candidate of an answer is rejected and the second one
\* satisfies the rule, qsearch_track and qsearch_playlist return the second
\* candidate as the match of the strategy.
C26_SecondCandidateReturned ==
    /\ SecondCandidateCase("track") =>
          (IsMatch(result) /\ result.track_uri = response.items[2].uri
              /\ result.found_on_try = 1)
    /\ SecondCandidateCase("playlist") =>
          (IsMatch(result) /\ result.playlist_uri = response.items[2].uri
              /\ result.found_on_try = 1)

----------------------------------------------------------------------------
(* Properties of search_track of the original pipeline, checked under SpecEtl *)

\* the track rule on a row of the original pipeline
EtlTrackRule(row, track) ==
    \/ Abs(track.duration_ms - row.duration_ms) <= 5000
    \/ /\ IsSubstring(Lower(track.name), Lower(row.title))
       /\ \E k \in 1..Len(track.artists) :
             IsSubstring(Lower(track.artists[k]), Lower(row.title))

\* C27: in the original pipeline, when the first candidate of an answer is
\* rejected search_track returns False at once: whatever the second candidate of
\* the two asked for is, nothing is saved, registered or logged for it.
C27_OriginalChecksFirstOnly ==
    [][(result'.tag = "returned" /\ result.tag = "not called"
          /\ response.items # <<>> /\ ~EtlTrackRule(video, response.items[1])) =>
          /\ result'.value = "False"
          /\ UNCHANGED <<log_tracks, distinct_tracks, sent>>]_vars

\* C27 witness: the first candidate was rejected, the second satisfies the track
\* rule, and search_track returned False with nothing logged
C27_Witness ==
    /\ result.tag = "returned"
    /\ Len(response.items) = 2
    /\ ~EtlTrackRule(video, response.items[1])
    /\ EtlTrackRule(video, response.items[2])
    /\ result.value = "False"
    /\ log_tracks = <<>> /\ sent = <<>>

----------------------------------------------------------------------------
(* Properties of the ledgers and the like-staging lists over a run, checked *)
(* under Spec                                                               *)

\* logNext is log, or log with one entry added at its end
ExtendedByAtMostOne(log, logNext) ==
    /\ Len(log) <= Len(logNext)
    /\ Len(logNext) <= Len(log) + 1
    /\ \A i \in 1..Len(log) : logNext[i] = log[i]

\* C28: over any sequence of record resolutions each of log_tracks, log_albums
\* and log_playlists_others is at every step an extension of its previous value
\* (no entry removed, reordered or modified) and grows by at most one entry per
\* record.
C28_LedgersAppendOnly ==
    [][ /\ ExtendedByAtMostOne(log_tracks, log_tracks')
        /\ ExtendedByAtMostOne(log_albums, log_albums')
        /\ ExtendedByAtMostOne(log_playlists_others, log_playlists_others') ]_vars

\* C28 witness: a ledger received two entries, the other two one entry or none
C28_Witness ==
    /\ Len(log_tracks) = 2
    /\ Len(log_albums) + Len(log_playlists_others) = 1

\* the statuses of every key of a ledger: "saved" or "skipped (saved before the
\* run)" first, then "skipped (saved during the run)" only
FirstThenSkippedDuring(log) ==
    \A k \in KeysOf(log) :
        LET statuses == StatusesOf(log, k[1], k[2])
        IN  /\ statuses[1] \in {Saved, SkippedBefore}
            /\ \A i \in 2..Len(statuses) : statuses[i] = SkippedDuring

\* the number of "saved" entries a ledger holds for the key (uri, dest)
SavedCount(log, uri, dest) ==
    Cardinality({i \in 1..Len(log) :
        log[i].uri = uri /\ log[i].user_playlist_id = dest /\ log[i].status = Saved})

\* C29: for every key (entity_uri, destination) the ledger statuses in run order
\* are a first entry "saved" or "skipped (saved before the run)" followed only by
\* "skipped (saved during the run)" entries, so a key has at most one "saved"
\* entry.
C29_StatusSequencePerKey ==
    /\ FirstThenSkippedDuring(log_tracks)
    /\ FirstThenSkippedDuring(log_albums)
    /\ FirstThenSkippedDuring(log_playlists_others)
    /\ \A k \in KeysOf(log_tracks) : SavedCount(log_tracks, k[1], k[2]) <= 1
    /\ \A k \in KeysOf(log_albums) : SavedCount(log_albums, k[1], k[2]) <= 1
    /\ \A k \in KeysOf(log_playlists_others) :
          SavedCount(log_playlists_others, k[1], k[2]) <= 1

\* C29 witness: a key of log_tracks whose entries are "skipped (saved before the
\* run)" and then "skipped (saved during the run)" twice, with no "saved" entry
C29_Witness ==
    \E k \in KeysOf(log_tracks) :
        StatusesOf(log_tracks, k[1], k[2]) = <<SkippedBefore, SkippedDuring, SkippedDuring>>

\* the URIs of the "saved" entries of a ledger whose destination is the sentinel
\* "0", in ledger order
SavedForLiked(log) ==
    LET hits == SelectSeq(log, LAMBDA e : e.status = Saved /\ e.user_playlist_id = "0")
    IN  [i \in 1..Len(hits) |-> hits[i].uri]

\* C30: after every processed record each like-staging list corresponds one to
\* one, in order, to the "saved" entries of its ledger whose destination is "0":
\* tracks_to_like and albums_to_like hold their URIs, playlists_to_like the ids
\* of their playlists.
C30_LikeListsMirrorLedger ==
    /\ tracks_to_like = SavedForLiked(log_tracks)
    /\ albums_to_like = SavedForLiked(log_albums)
    /\ Len(playlists_to_like) = Len(SavedForLiked(log_playlists_others))
    /\ \A i \in 1..Len(playlists_to_like) :
          playlists_to_like[i] = CatalogPlaylist(SavedForLiked(log_playlists_others)[i]).id

\* C30 witness: two playlists were staged for the liked library, with a third
\* ledger entry between or around them that staged none
C30_Witness ==
    /\ Len(playlists_to_like) = 2
    /\ Len(log_playlists_others) = 3

\* the track URIs staged for the user playlists
StagedForPlaylists ==
    UNION { ElementsOf(playlist_items[id]) : id \in DOMAIN playlist_items }

\* C31: after every processed record, every track URI of every playlist staging
\* list playlist_items[id] is a key of the track registry distinct_tracks.
C31_StagedTracksRegistered ==
    StagedForPlaylists \subseteq DOMAIN distinct_tracks

\* C31 witness: a track, an album and a playlist were each saved to a user
\* playlist, and a staging list holds three tracks
C31_Witness ==
    /\ \E i \in 1..Len(log_tracks) :
          log_tracks[i].status = Saved /\ log_tracks[i].user_playlist_id # "0"
    /\ \E i \in 1..Len(log_albums) :
          log_albums[i].status = Saved /\ log_albums[i].user_playlist_id # "0"
    /\ \E i \in 1..Len(log_playlists_others) :
          log_playlists_others[i].status = Saved /\ log_playlists_others[i].user_playlist_id # "0"
    /\ \E id \in DOMAIN playlist_items : Len(playlist_items[id]) = 3

\* a step that appended an entry with one of the two skipped statuses left the
\* playlist staging map, the like-staging lists and the snapshots as they were
SkippedLeavesStaging(log, logNext) ==
    ( /\ Appended(log, logNext)
      /\ logNext[Len(logNext)].status \in {SkippedDuring, SkippedBefore} )
        => UNCHANGED <<playlist_items, albums_to_like, playlists_to_like, tracks_to_like,
                       envVars>>

\* C32: when a collect operation yields one of the skipped statuses, the
\* playlist staging map and the three like-staging lists are exactly as before
\* the call; only the registries and the ledger change for that record.
C32_SkippedStagesNothing ==
    [][ /\ SkippedLeavesStaging(log_tracks, log_tracks')
        /\ SkippedLeavesStaging(log_albums, log_albums')
        /\ SkippedLeavesStaging(log_playlists_others, log_playlists_others') ]_vars

\* C32 witness: an album was skipped as saved during the run for a user playlist
\* whose staging list is filled, and a track was skipped as saved before the run
C32_Witness ==
    /\ \E i \in 1..Len(log_albums) :
          /\ log_albums[i].status = SkippedDuring
          /\ log_albums[i].user_playlist_id \in DOMAIN playlist_items
          /\ playlist_items[log_albums[i].user_playlist_id] # <<>>
    /\ \E i \in 1..Len(log_tracks) : log_tracks[i].status = SkippedBefore

\* C33: a playlist match never gets "skipped (saved before the run)": the first
\* match of a playlist URI for a destination in a run is "saved", and for the
\* destination "0" its playlist_id is staged for following.
C33_PlaylistFirstMatchSaved ==
    [][ Appended(log_playlists_others, log_playlists_others') =>
          LET e == log_playlists_others'[Len(log_playlists_others')]
          IN  /\ e.status # SkippedBefore
              /\ <<e.uri, e.user_playlist_id>> \notin KeysOf(log_playlists_others) =>
                    /\ e.status = Saved
                    /\ e.user_playlist_id = "0" =>
                          playlists_to_like' =
                              Append(playlists_to_like, CatalogPlaylist(e.uri).id) ]_vars

\* C33 witness: with a track of the playlist in the liked snapshot, the playlist
\* was saved for "0", saved for a user playlist and then matched again
C33_Witness ==
    /\ liked_tracks_uri = {"t1"} /\ liked_albums_uri = {"a1"}
    /\ StatusesOf(log_playlists_others, "p1", "0") = <<Saved, SkippedDuring>>
    /\ \E i \in 1..Len(log_playlists_others) :
          /\ log_playlists_others[i].uri = "p1"
          /\ log_playlists_others[i].user_playlist_id # "0"
          /\ log_playlists_others[i].status = Saved
    /\ playlists_to_like = <<"id1">>

----------------------------------------------------------------------------
(* The number of search calls of one prepare_spotify call, checked under    *)
(* SpecRecordLive                                                           *)

\* the record of the last call is routed to the album and playlist cascades
RoutedToAlbumBranch ==
    THRESHOLD_MS.is_set /\ video.duration_ms >= THRESHOLD_MS.value

\* the bounds on the search calls of the last prepare_spotify call
SearchCallsWithinBounds ==
    /\ IF RoutedToAlbumBranch
       THEN /\ Len(SearchesOf("album")) <= 3
            /\ Len(SearchesOf("playlist")) <= 3
            /\ Len(searches) = Len(SearchesOf("album")) + Len(SearchesOf("playlist"))
       ELSE /\ Len(searches) <= 3
            /\ Len(searches) = Len(SearchesOf("track"))
    /\ result.album_info.tag = "match" => SearchesOf("playlist") = <<>>

\* C34: resolving a record ends, and with a bounded number of search calls: at
\* most 3 for a record routed to the track cascade, at most 6 (3 album and 3
\* playlist) for a record routed to the album and playlist branch, and no search
\* call of the playlist cascade when an album was accepted.
C34_SearchCallsBounded ==
    /\ <>Resolved
    /\ [](Resolved => SearchCallsWithinBounds)

\* C34 witness: a record for which the three album searches and the three
\* playlist searches were all made
C34_Witness ==
    /\ Resolved
    /\ RoutedToAlbumBranch
    /\ Len(SearchesOf("album")) = 3
    /\ Len(SearchesOf("playlist")) = 3

=============================================================================
